---- MODULE Spec2Model ----
(***************************************************************************)
(* A model of the sales-target backend (src/backend/server.js): the cell   *)
(* normalisers, the return-file parser, the multi-salesperson sheet        *)
(* segmentation, the per-block invoice aggregation and reconciliation, the *)
(* MonthlyAchievement accumulator and the /api/upload-sales handler.       *)
(*                                                                         *)
(* Representation.  A JavaScript string is a sequence of one-character     *)
(* strings.  A JavaScript number is a fixed-point integer counting tenths  *)
(* (1000 is written 10000, 999.6 is 9996), so that Math.round is not the   *)
(* identity; sums of such numbers are exact.  A spreadsheet cell or a      *)
(* property read is one of Str(s), Num(n), Undef.                          *)
(***************************************************************************)
EXTENDS Integers, Sequences, FiniteSets, TLC

\* body(value), with value computed once however often body uses it.
With(value, body(_)) == CHOOSE r \in {body(x) : x \in {value}} : TRUE

\* ------------------------------------------------------------------------
\* JavaScript values
\* ------------------------------------------------------------------------

Str(s) == [str |-> s]
Num(n) == [num |-> n]
Undef == [undef |-> TRUE]
Null == [null |-> TRUE]

IsStr(c) == DOMAIN c = {"str"}
IsNum(c) == DOMAIN c = {"num"}

\* ToBoolean: undefined, null, "" and 0 are falsy.
Truthy(c) ==
  IF IsStr(c) THEN c.str # <<>>
  ELSE IF IsNum(c) THEN c.num # 0
  ELSE FALSE

\* a || b
JSOr(a, b) == IF Truthy(a) THEN a ELSE b

LowerChars == <<"a", "b", "c", "d", "e", "f", "g", "h", "i", "j", "k", "l", "m",
                "n", "o", "p", "q", "r", "s", "t", "u", "v", "w", "x", "y", "z">>
UpperChars == <<"A", "B", "C", "D", "E", "F", "G", "H", "I", "J", "K", "L", "M",
                "N", "O", "P", "Q", "R", "S", "T", "U", "V", "W", "X", "Y", "Z">>
Digits == <<"0", "1", "2", "3", "4", "5", "6", "7", "8", "9">>

UpperOf ==
  [c \in {LowerChars[i] : i \in DOMAIN LowerChars} |->
     UpperChars[CHOOSE i \in DOMAIN LowerChars : LowerChars[i] = c]]
UpChar(c) == IF c \in DOMAIN UpperOf THEN UpperOf[c] ELSE c

\* String.prototype.toUpperCase
ToUpper(s) == IF s = <<>> THEN <<>> ELSE [i \in 1..Len(s) |-> UpChar(s[i])]

IsSpace(c) == c \in {" ", "\t"}

RECURSIVE TrimStart(_)
TrimStart(s) ==
  IF s # <<>> /\ IsSpace(Head(s)) THEN TrimStart(Tail(s)) ELSE s

RECURSIVE TrimEnd(_)
TrimEnd(s) ==
  IF s # <<>> /\ IsSpace(s[Len(s)]) THEN TrimEnd(SubSeq(s, 1, Len(s) - 1)) ELSE s

\* String.prototype.trim
Trim(s) == TrimEnd(TrimStart(s))

\* String.prototype.startsWith
StartsWith(s, p) == Len(p) <= Len(s) /\ SubSeq(s, 1, Len(p)) = p

\* String.prototype.includes
Includes(s, p) ==
  \E i \in 1..(Len(s) + 1) :
    i + Len(p) - 1 <= Len(s) /\ SubSeq(s, i, i + Len(p) - 1) = p

DigitOf ==
  [c \in {Digits[i] : i \in DOMAIN Digits} |->
     (CHOOSE i \in DOMAIN Digits : Digits[i] = c) - 1]
IsDigit(c) == c \in DOMAIN DigitOf
DigitVal(c) == DigitOf[c]
AllDigits(s) == \A i \in DOMAIN s : IsDigit(s[i])

RECURSIVE DigitsVal(_)
DigitsVal(s) ==
  IF s = <<>> THEN 0
  ELSE 10 * DigitsVal(SubSeq(s, 1, Len(s) - 1)) + DigitVal(s[Len(s)])

RECURSIVE NatToStr(_)
NatToStr(n) ==
  IF n < 10 THEN <<Digits[n + 1]>>
  ELSE NatToStr(n \div 10) \o <<Digits[(n % 10) + 1]>>

\* Number.prototype.toString of a fixed-point number of tenths.
NumToStr(n) ==
  LET a == IF n < 0 THEN 0 - n ELSE n
      ip == NatToStr(a \div 10)
      fp == IF a % 10 = 0 THEN <<>> ELSE <<".", Digits[(a % 10) + 1]>>
  IN (IF n < 0 THEN <<"-">> ELSE <<>>) \o ip \o fp

\* String(v)
JSString(c) ==
  IF IsStr(c) THEN c.str
  ELSE IF IsNum(c) THEN NumToStr(c.num)
  ELSE IF c = Null THEN <<"n", "u", "l", "l">>
  ELSE <<"u", "n", "d", "e", "f", "i", "n", "e", "d">>

NaN == [ok |-> FALSE, v |-> 0]

\* An unsigned decimal literal: digits, digits.digits, digits. or .digits
\* (the fixed point keeps the first fractional digit).
ParseUnsigned(s) ==
  LET dots == {i \in DOMAIN s : s[i] = "."}
  IN IF dots = {}
       THEN IF s # <<>> /\ AllDigits(s)
              THEN [ok |-> TRUE, v |-> 10 * DigitsVal(s)]
              ELSE NaN
     ELSE IF Cardinality(dots) = 1
       THEN LET d == CHOOSE i \in dots : TRUE
                ip == SubSeq(s, 1, d - 1)
                fp == SubSeq(s, d + 1, Len(s))
            IN IF AllDigits(ip) /\ AllDigits(fp) /\ (ip # <<>> \/ fp # <<>>)
                 THEN [ok |-> TRUE,
                       v |-> 10 * DigitsVal(ip)
                             + (IF fp = <<>> THEN 0 ELSE DigitVal(fp[1]))]
                 ELSE NaN
     ELSE NaN

\* Number(s) for a string: surrounding white space is ignored, the empty
\* string is 0, an optional sign precedes a decimal literal, anything else
\* is NaN. (Number() also reads exponent, hexadecimal, octal, binary and
\* Infinity texts; no cell of the model holds one.)
StringToNumber(s) ==
  With(Trim(s), LAMBDA t :
    IF t = <<>> THEN [ok |-> TRUE, v |-> 0]
    ELSE IF Head(t) = "-"
      THEN With(ParseUnsigned(Tail(t)), LAMBDA u :
             IF u.ok THEN [ok |-> TRUE, v |-> 0 - u.v] ELSE NaN)
    ELSE IF Head(t) = "+" THEN ParseUnsigned(Tail(t))
    ELSE ParseUnsigned(t))

\* String.prototype.replace(/,/g, "")
RECURSIVE RemoveCommas(_)
RemoveCommas(s) ==
  IF s = <<>> THEN <<>>
  ELSE IF Head(s) = "," THEN RemoveCommas(Tail(s))
  ELSE <<Head(s)>> \o RemoveCommas(Tail(s))

\* Math.round: the nearest integer, a half rounding up; the result is again
\* in tenths.
MathRound(n) == 10 * ((n + 5) \div 10)

\* ------------------------------------------------------------------------
\* Cell normalisers
\* ------------------------------------------------------------------------

\* num with the commas left in the text.
num_KeepCommas(val) ==
  IF val = Undef \/ val = Null \/ val = Str(<<>>) THEN 0
  ELSE With(StringToNumber(Trim(JSString(val))), LAMBDA n :
         IF n.ok THEN n.v ELSE 0)

num(val) ==
  IF val = Undef \/ val = Null \/ val = Str(<<>>) THEN 0
  ELSE With(StringToNumber(Trim(RemoveCommas(JSString(val)))), LAMBDA n :
         IF n.ok THEN n.v ELSE 0)

SPARES == <<"S", "P", "A", "R", "E", "S">>

isSparesItem(itemModel) ==
  IF itemModel = <<>> THEN FALSE
  ELSE StartsWith(ToUpper(Trim(itemModel)), SPARES)

\* String.prototype.replace(/\*+$/, "")
RECURSIVE StripTrailingStars(_)
StripTrailingStars(s) ==
  IF s # <<>> /\ s[Len(s)] = "*"
    THEN StripTrailingStars(SubSeq(s, 1, Len(s) - 1))
    ELSE s

normalizeInvoiceNo(v) ==
  IF v = <<>> THEN <<>>
  ELSE StripTrailingStars(ToUpper(Trim(v)))

FINANCE_CUSTOMERS ==
  { <<"B", "A", "J", "A", "J", " ", "F", "I", "N", "A", "N", "C", "E", " ", "L", "T", "D">>,
    <<"T", "V", "S", " ", "F", "I", "N", "A", "N", "C", "E", " ", "L", "T", "D">>,
    <<"H", "D", "B", " ", "F", "I", "N", "A", "N", "C", "E", " ", "L", "T", "D">> }

Label ==
  [ InvoiceNoDot |-> <<"I", "n", "v", "o", "i", "c", "e", " ", "N", "o", ".">>,
    InvoiceNo |-> <<"I", "n", "v", "o", "i", "c", "e", " ", "N", "o">>,
    INVOICE_NO |-> <<"I", "N", "V", "O", "I", "C", "E", " ", "N", "O">>,
    Invoice |-> <<"I", "n", "v", "o", "i", "c", "e">>,
    InvNo |-> <<"I", "n", "v", " ", "N", "o">>,
    Customer |-> <<"C", "u", "s", "t", "o", "m", "e", "r">>,
    FinancierCustomer |-> <<"F", "i", "n", "a", "n", "c", "i", "e", "r", "/", "C", "u", "s", "t", "o", "m", "e", "r">>,
    FinancierSpCustomer |-> <<"F", "i", "n", "a", "n", "c", "i", "e", "r", " ", "/", " ", "C", "u", "s", "t", "o", "m", "e", "r">>,
    Party |-> <<"P", "a", "r", "t", "y">>,
    NetInvoice |-> <<"N", "e", "t", " ", "I", "n", "v", "o", "i", "c", "e">>,
    NetInv |-> <<"N", "e", "t", " ", "I", "n", "v">>,
    AmountRealised |-> <<"A", "m", "o", "u", "n", "t", " ", "R", "e", "a", "l", "i", "s", "e", "d">>,
    AmtRealised |-> <<"A", "m", "t", " ", "R", "e", "a", "l", "i", "s", "e", "d">>,
    InvoiceValue |-> <<"I", "n", "v", "o", "i", "c", "e", " ", "V", "a", "l", "u", "e">>,
    InvValue |-> <<"I", "n", "v", " ", "V", "a", "l", "u", "e">>,
    CreditCardCharges |-> <<"(", "+", ")", " ", "C", "R", "E", "D", "I", "T", " ", "C", "A", "R", "D", " ", "C", "H", "A", "R", "G", "E", "S">>,
    NegRoundOff |-> <<"(", "-", ")", " ", "R", "o", "u", "n", "d", " ", "O", "f", "f">>,
    PosRoundOff |-> <<"(", "+", ")", " ", "R", "o", "u", "n", "d", " ", "O", "f", "f">>,
    CashDiscount |-> <<"(", "-", ")", " ", "C", "A", "S", "H", " ", "D", "I", "S", "C", "O", "U", "N", "T">>,
    ItemModel |-> <<"I", "t", "e", "m", "/", "M", "o", "d", "e", "l">>,
    Item |-> <<"I", "t", "e", "m">>,
    Brand |-> <<"B", "r", "a", "n", "d">>,
    NetAmount |-> <<"N", "e", "t", " ", "A", "m", "o", "u", "n", "t">>,
    NetAmt |-> <<"N", "e", "t", " ", "A", "m", "t">> ]

\* ------------------------------------------------------------------------
\* processRowsForSalesperson, first loop: rows -> invoices
\* ------------------------------------------------------------------------

\* row[label]: a property that is absent reads as undefined.
Get(row, label) == IF label \in DOMAIN row THEN row[label] ELSE Undef

EmptyStr == Str(<<>>)

\* The invoice-number cell of a row, through the alias columns.
invNoCell(row) ==
  JSOr(Get(row, Label.InvoiceNoDot),
    JSOr(Get(row, Label.InvoiceNo),
      JSOr(Get(row, Label.INVOICE_NO),
        JSOr(Get(row, Label.Invoice), Get(row, Label.InvNo)))))

\* invNoRaw = invNoRaw ? String(invNoRaw).trim() : ""
invNoRawOf(row) ==
  With(invNoCell(row), LAMBDA c : IF Truthy(c) THEN Trim(JSString(c)) ELSE <<>>)

customerCell(row) ==
  JSOr(Get(row, Label.Customer),
    JSOr(Get(row, Label.FinancierCustomer),
      JSOr(Get(row, Label.FinancierSpCustomer),
        JSOr(Get(row, Label.Party), EmptyStr))))

netInvoiceOf(row) == num(JSOr(Get(row, Label.NetInvoice), Get(row, Label.NetInv)))
amountRealisedOf(row) == num(JSOr(Get(row, Label.AmountRealised), Get(row, Label.AmtRealised)))
invoiceValueOf(row) == num(JSOr(Get(row, Label.InvoiceValue), Get(row, Label.InvValue)))
ccChargesOf(row) == num(Get(row, Label.CreditCardCharges))
negRoundOffOf(row) == num(Get(row, Label.NegRoundOff))
posRoundOffOf(row) == num(Get(row, Label.PosRoundOff))
cashDiscountOf(row) == num(Get(row, Label.CashDiscount))

newInvoice(normInvNo, row) ==
  [invoiceNo |-> normInvNo,
   customer |-> customerCell(row),
   netInvoice |-> netInvoiceOf(row),
   amountRealised |-> amountRealisedOf(row),
   invoiceValue |-> invoiceValueOf(row),
   ccCharges |-> ccChargesOf(row),
   negRoundOff |-> negRoundOffOf(row),
   posRoundOff |-> posRoundOffOf(row),
   cashDiscount |-> cashDiscountOf(row),
   items |-> <<>>]

\* fillIfMissing with the test of the current value left out.
fillIfMissing_Overwrite(current, candidate) ==
  IF candidate # 0 THEN candidate ELSE current

\* if (!inv.field && candidate) inv.field = candidate
fillIfMissing(current, candidate) ==
  IF current = 0 /\ candidate # 0 THEN candidate ELSE current

fillInvoice(inv, row) ==
  [inv EXCEPT
     !.invoiceValue = fillIfMissing(@, invoiceValueOf(row)),
     !.ccCharges = fillIfMissing(@, ccChargesOf(row)),
     !.negRoundOff = fillIfMissing(@, negRoundOffOf(row)),
     !.posRoundOff = fillIfMissing(@, posRoundOffOf(row)),
     !.cashDiscount = fillIfMissing(@, cashDiscountOf(row)),
     !.netInvoice = fillIfMissing(@, netInvoiceOf(row)),
     !.amountRealised = fillIfMissing(@, amountRealisedOf(row))]

lineItem(row) ==
  [model |-> JSOr(Get(row, Label.ItemModel), JSOr(Get(row, Label.Item), EmptyStr)),
   brand |-> JSOr(Get(row, Label.Brand), EmptyStr),
   netAmount |-> num(JSOr(Get(row, Label.NetAmount), Get(row, Label.NetAmt)))]

\* The state of the loop over rows: the Map of invoices in insertion order
\* and lastInvNo (<<>> stands for null: both are falsy and neither is an
\* invoice number).
AggInit == [invoices |-> <<>>, lastInvNo |-> <<>>]

\* invoiceIndex that finds an invoice only when it is the last one added.
invoiceIndex_LastOnly(invoices, normInvNo) ==
  IF invoices # <<>> /\ invoices[Len(invoices)].invoiceNo = normInvNo
    THEN Len(invoices)
    ELSE 0

invoiceIndex(invoices, normInvNo) ==
  IF \E i \in DOMAIN invoices : invoices[i].invoiceNo = normInvNo
    THEN CHOOSE i \in DOMAIN invoices : invoices[i].invoiceNo = normInvNo
    ELSE 0

\* aggregateRow with no number inherited by a row without one.
aggregateRow_NoInherit(st, row) ==
  With(invNoRawOf(row), LAMBDA invNoRaw :
  With(normalizeInvoiceNo(invNoRaw), LAMBDA normInvNo :
  With(invoiceIndex(st.invoices, normInvNo), LAMBDA k :
    LET inv == IF k = 0 THEN newInvoice(normInvNo, row)
                        ELSE fillInvoice(st.invoices[k], row)
        withItem == [inv EXCEPT !.items = Append(@, lineItem(row))]
    IN IF normInvNo = <<>> THEN st
       ELSE [invoices |-> IF k = 0 THEN Append(st.invoices, withItem)
                                   ELSE [st.invoices EXCEPT ![k] = withItem],
             lastInvNo |-> normInvNo])))

\* aggregateRow with no line item for the row that opens an invoice.
aggregateRow_FirstRowNoItem(st, row) ==
  With(invNoRawOf(row), LAMBDA invNoRaw :
  With(IF invNoRaw # <<>> THEN normalizeInvoiceNo(invNoRaw) ELSE st.lastInvNo,
       LAMBDA normInvNo :
  With(invoiceIndex(st.invoices, normInvNo), LAMBDA k :
    LET inv == IF k = 0 THEN newInvoice(normInvNo, row)
                        ELSE fillInvoice(st.invoices[k], row)
        withItem == IF k = 0 THEN inv
                    ELSE [inv EXCEPT !.items = Append(@, lineItem(row))]
    IN IF normInvNo = <<>> THEN st
       ELSE [invoices |-> IF k = 0 THEN Append(st.invoices, withItem)
                                   ELSE [st.invoices EXCEPT ![k] = withItem],
             lastInvNo |-> IF invNoRaw # <<>> THEN normInvNo ELSE st.lastInvNo])))

\* One iteration of "for (const row of rows)".
aggregateRow(st, row) ==
  With(invNoRawOf(row), LAMBDA invNoRaw :
  With(IF invNoRaw # <<>> THEN normalizeInvoiceNo(invNoRaw) ELSE st.lastInvNo,
       LAMBDA normInvNo :
  With(invoiceIndex(st.invoices, normInvNo), LAMBDA k :
    LET inv == IF k = 0 THEN newInvoice(normInvNo, row)
                        ELSE fillInvoice(st.invoices[k], row)
        withItem == [inv EXCEPT !.items = Append(@, lineItem(row))]
    IN IF normInvNo = <<>> THEN st
       ELSE [invoices |-> IF k = 0 THEN Append(st.invoices, withItem)
                                   ELSE [st.invoices EXCEPT ![k] = withItem],
             lastInvNo |-> IF invNoRaw # <<>> THEN normInvNo ELSE st.lastInvNo])))

RECURSIVE aggregateFrom(_, _)
aggregateFrom(st, rows) ==
  IF rows = <<>> THEN st
  ELSE With(aggregateRow(st, Head(rows)), LAMBDA next :
         aggregateFrom(next, Tail(rows)))

aggregateInvoices(rows) == aggregateFrom(AggInit, rows).invoices

\* ------------------------------------------------------------------------
\* processRowsForSalesperson, second loop: invoices -> totalOwn, totalOther
\* ------------------------------------------------------------------------

\* const ownBrand = salesperson.brand ? salesperson.brand.toUpperCase() : null
\* (<<>> stands for null: "ownBrand &&" treats them alike).
ownBrandOf(brand) == IF Truthy(brand) THEN ToUpper(brand.str) ELSE <<>>

LinesInit == [sparesTotal |-> 0, ownNet |-> 0, otherNet |-> 0]

\* isOwnLine without the toUpperCase of the model.
isOwnLine_NoUpper(ownBrand, model) ==
  ownBrand # <<>> /\ StartsWith(model, ownBrand)

isOwnLine(ownBrand, model) ==
  ownBrand # <<>> /\ StartsWith(ToUpper(model), ownBrand)

\* classifyLine with the brand test ahead of the spares test.
classifyLine_BrandFirst(acc, item, ownBrand) ==
  With(JSString(JSOr(item.model, EmptyStr)), LAMBDA model :
    LET netAmount == item.netAmount
    IN IF netAmount = 0 THEN acc
       ELSE IF ownBrand # <<>> /\ StartsWith(ToUpper(model), ownBrand)
         THEN [acc EXCEPT !.ownNet = @ + netAmount]
       ELSE IF isSparesItem(model)
         THEN [acc EXCEPT !.sparesTotal = @ + netAmount]
       ELSE [acc EXCEPT !.otherNet = @ + netAmount])

\* One iteration of "for (const item of inv.items)".
classifyLine(acc, item, ownBrand) ==
  With(JSString(JSOr(item.model, EmptyStr)), LAMBDA model :
    LET netAmount == item.netAmount
    IN IF netAmount = 0 THEN acc
       ELSE IF isSparesItem(model)
         THEN [acc EXCEPT !.sparesTotal = @ + netAmount]
       ELSE IF isOwnLine(ownBrand, model)
         THEN [acc EXCEPT !.ownNet = @ + netAmount]
       ELSE [acc EXCEPT !.otherNet = @ + netAmount])

\* The accumulators after each item of the invoice, in item order.
RECURSIVE lineTrace(_, _, _)
lineTrace(acc, items, ownBrand) ==
  IF items = <<>> THEN <<>>
  ELSE With(classifyLine(acc, Head(items), ownBrand), LAMBDA next :
         <<next>> \o lineTrace(next, Tail(items), ownBrand))

\* sparesTotal, ownNet and otherNet once the loop over the items is over.
lastOf(trace, init) == IF trace = <<>> THEN init ELSE trace[Len(trace)]

classifyItems(items, ownBrand) ==
  With(lineTrace(LinesInit, items, ownBrand), LAMBDA t : lastOf(t, LinesInit))

\* inReturnList with the return list never consulted.
inReturnList_Never(returnInvoiceSet, invKey) == FALSE

inReturnList(returnInvoiceSet, invKey) == invKey \in returnInvoiceSet

\* customerOf without trim and toUpperCase.
customerOf_Raw(inv) == JSString(JSOr(inv.customer, EmptyStr))

customerOf(inv) == ToUpper(Trim(JSString(JSOr(inv.customer, EmptyStr))))

finalInvoiceValue(inv) ==
  inv.invoiceValue - inv.ccCharges - inv.negRoundOff + inv.posRoundOff
    - inv.cashDiscount

\* isMismatch with the adjusted invoice value in the place of netInvoice.
isMismatch_Adjusted(inv) ==
  MathRound(finalInvoiceValue(inv)) # MathRound(inv.amountRealised)

isMismatch(inv) == MathRound(inv.netInvoice) # MathRound(inv.amountRealised)

isFinanceCustomer(customer) == customer \in FINANCE_CUSTOMERS

\* skipForMismatch with the finance test not negated.
skipForMismatch_Inverted(inv) ==
  isMismatch(inv) /\ isFinanceCustomer(customerOf(inv))

\* if (isMismatch && !isFinanceCustomer) continue
skipForMismatch(inv) == isMismatch(inv) /\ ~isFinanceCustomer(customerOf(inv))

\* One iteration of "for (const [invKey, inv] of invoices)": the totals
\* after it together with what the iteration logs.
reconcileInvoice(tot, inv, ownBrand, returnInvoiceSet) ==
  With(lineTrace(LinesInit, inv.items, ownBrand), LAMBDA trace :
  With(lastOf(trace, LinesInit), LAMBDA lines :
  With(IF inReturnList(returnInvoiceSet, inv.invoiceNo) THEN "return"
       ELSE IF skipForMismatch(inv) THEN "mismatch"
       ELSE IF lines.ownNet = 0 /\ lines.otherNet = 0 THEN "empty"
       ELSE "accepted", LAMBDA event :
    [inv |-> inv,
     event |-> event,
     lines |-> IF event = "return" THEN <<>> ELSE trace,
     adjustedInvoice |-> IF event = "return" THEN 0
                         ELSE finalInvoiceValue(inv) - lines.sparesTotal,
     totalOwn |-> IF event = "accepted" THEN tot.totalOwn + lines.ownNet
                                        ELSE tot.totalOwn,
     totalOther |-> IF event = "accepted" THEN tot.totalOther + lines.otherNet
                                          ELSE tot.totalOther])))

\* The record of every iteration of the loop over invoices, in Map order.
RECURSIVE reconcileTrace(_, _, _, _)
reconcileTrace(tot, invoices, ownBrand, returnInvoiceSet) ==
  IF invoices = <<>> THEN <<>>
  ELSE With(reconcileInvoice(tot, Head(invoices), ownBrand, returnInvoiceSet),
            LAMBDA step :
         <<step>> \o reconcileTrace(step, Tail(invoices), ownBrand, returnInvoiceSet))

TotalsInit == [totalOwn |-> 0, totalOther |-> 0]

\* reconcileTotals that keeps the totals after the first invoice.
reconcileTotals_FirstOnly(trace) ==
  With(IF trace = <<>> THEN TotalsInit ELSE trace[1], LAMBDA first :
    [totalOwn |-> first.totalOwn, totalOther |-> first.totalOther])

reconcileTotals(trace) ==
  With(lastOf(trace, TotalsInit), LAMBDA last :
    [totalOwn |-> last.totalOwn, totalOther |-> last.totalOther])

\* ------------------------------------------------------------------------
\* extractReturnInvoiceSet
\* ------------------------------------------------------------------------

\* rowArr[idx], with the sheet's columns numbered from 1.
Cell(rowArr, idx) == IF idx \in DOMAIN rowArr THEN rowArr[idx] ELSE Undef

REF_DOC == <<"R", "E", "F", ".", " ", "D", "O", "C">>

\* refColIndex that always falls back to the first column.
refColIndex_FirstColumn(headerRow) == 1

\* headerRow.findIndex(...), or column 1 when no header cell matches.
refColIndex(headerRow) ==
  LET hits == {i \in DOMAIN headerRow :
                 StartsWith(ToUpper(Trim(JSString(headerRow[i]))), REF_DOC)}
  IN IF hits = {} THEN 1
     ELSE CHOOSE i \in hits : \A j \in hits : i <= j

\* raw.split(/\s+/)[0] for a trimmed, non-empty string.
RECURSIVE firstToken(_)
firstToken(s) ==
  IF s = <<>> \/ IsSpace(Head(s)) THEN <<>>
  ELSE <<Head(s)>> \o firstToken(Tail(s))

returnEntry(rowArr, col) ==
  With(Trim(JSString(JSOr(Cell(rowArr, col), EmptyStr))), LAMBDA raw :
    IF raw = <<>> THEN <<>> ELSE normalizeInvoiceNo(firstToken(raw)))

extractReturnInvoiceSet(rows) ==
  IF rows = <<>> THEN {}
  ELSE With(refColIndex(rows[1]), LAMBDA col :
         {returnEntry(rows[i], col) : i \in 2..Len(rows)} \ {<<>>})

\* ------------------------------------------------------------------------
\* processExcelFileMulti, the loop over the sheet's rows
\* ------------------------------------------------------------------------

DATE == <<"D", "A", "T", "E">>
SALESPERSON == <<"S", "A", "L", "E", "S", "P", "E", "R", "S", "O", "N">>
TOTAL == <<"T", "O", "T", "A", "L">>
GRAND_TOTAL == <<"G", "R", "A", "N", "D", " ", "T", "O", "T", "A", "L">>
BRANCH == <<"B", "R", "A", "N", "C", "H">>
PERIOD == <<"P", "E", "R", "I", "O", "D">>

\* /^word\s*:/i
matchesLabel(s, word) ==
  /\ StartsWith(ToUpper(s), word)
  /\ With(TrimStart(SubSeq(s, Len(word) + 1, Len(s))), LAMBDA rest :
          rest # <<>> /\ Head(rest) = ":")

\* s.split(":")[1], or <<>> when there is no such part.
RECURSIVE untilColon(_)
untilColon(s) ==
  IF s = <<>> \/ Head(s) = ":" THEN <<>>
  ELSE <<Head(s)>> \o untilColon(Tail(s))

RECURSIVE afterColon(_)
afterColon(s) ==
  IF s = <<>> THEN <<>>
  ELSE IF Head(s) = ":" THEN Tail(s)
  ELSE afterColon(Tail(s))

namePartOf(firstCell) == Trim(untilColon(afterColon(firstCell)))

firstCellOf(rowArr) == Trim(JSString(JSOr(Cell(rowArr, 1), EmptyStr)))
secondCellOf(rowArr) == Trim(JSString(JSOr(Cell(rowArr, 2), EmptyStr)))

isRowEmpty(rowArr) ==
  \A i \in DOMAIN rowArr : Trim(JSString(JSOr(rowArr[i], EmptyStr))) = <<>>

\* isMetaRow that lets a "grand total" row through.
isMetaRow_NoGrandTotal(rowArr) ==
  With(firstCellOf(rowArr), LAMBDA firstCell :
    \/ isRowEmpty(rowArr)
    \/ ToUpper(firstCell) = TOTAL
    \/ matchesLabel(firstCell, BRANCH)
    \/ matchesLabel(firstCell, PERIOD))

isMetaRow(rowArr) ==
  With(firstCellOf(rowArr), LAMBDA firstCell :
    \/ isRowEmpty(rowArr)
    \/ ToUpper(firstCell) = TOTAL
    \/ ToUpper(firstCell) = GRAND_TOTAL
    \/ matchesLabel(firstCell, BRANCH)
    \/ matchesLabel(firstCell, PERIOD))

\* globalHeader.forEach((h, idx) => { if (!h) return; rowObj[...] = rowArr[idx] })
\* (a label that occurs twice keeps the later column).
rowObject(globalHeader, rowArr) ==
  With([i \in {j \in DOMAIN globalHeader : Truthy(globalHeader[j])} |->
          Trim(JSString(globalHeader[i]))], LAMBDA key :
    [k \in {key[i] : i \in DOMAIN key} |->
       Cell(rowArr, CHOOSE i \in DOMAIN key :
                      key[i] = k /\ \A j \in DOMAIN key : key[j] = k => j <= i)])

\* The state of the loop: currentSalesperson (<<>> stands for null),
\* rowsBySalesperson as its entries in key insertion order, globalHeader
\* (<<>> until it is detected: a header row has a first cell).
SegInit == [currentSalesperson |-> <<>>, rowsBySalesperson |-> <<>>,
            globalHeader |-> <<>>]

blockIndex(blocks, name) ==
  IF \E i \in DOMAIN blocks : blocks[i].name = name
    THEN CHOOSE i \in DOMAIN blocks : blocks[i].name = name
    ELSE 0

\* segmentRow with the row list of a name emptied by each of its markers.
segmentRow_ResetList(st, rowArr) ==
  With(firstCellOf(rowArr), LAMBDA firstCell :
  With(namePartOf(firstCell), LAMBDA namePart :
  LET secondCell == secondCellOf(rowArr)
      name == ToUpper(namePart)
      k == blockIndex(st.rowsBySalesperson, st.currentSalesperson)
  IN IF Includes(ToUpper(secondCell), TOTAL) THEN st
     ELSE IF st.globalHeader = <<>> /\ ToUpper(firstCell) = DATE
       THEN [st EXCEPT !.globalHeader = rowArr]
     ELSE IF matchesLabel(firstCell, SALESPERSON)
       THEN IF namePart = <<>>
              THEN [st EXCEPT !.currentSalesperson = <<>>]
              ELSE [st EXCEPT
                      !.currentSalesperson = name,
                      !.rowsBySalesperson =
                         IF blockIndex(@, name) = 0
                           THEN Append(@, [name |-> name, rows |-> <<>>])
                           ELSE [st.rowsBySalesperson EXCEPT
                                   ![blockIndex(st.rowsBySalesperson, name)].rows
                                      = <<>>]]
     ELSE IF st.currentSalesperson = <<>> \/ st.globalHeader = <<>> THEN st
     ELSE IF isMetaRow(rowArr) THEN st
     ELSE [st EXCEPT
             !.rowsBySalesperson[k].rows =
                Append(@, rowObject(st.globalHeader, rowArr))]))

\* segmentRow that takes rows before the header is detected.
segmentRow_NoHeaderNeeded(st, rowArr) ==
  With(firstCellOf(rowArr), LAMBDA firstCell :
  With(namePartOf(firstCell), LAMBDA namePart :
  LET secondCell == secondCellOf(rowArr)
      name == ToUpper(namePart)
      k == blockIndex(st.rowsBySalesperson, st.currentSalesperson)
  IN IF Includes(ToUpper(secondCell), TOTAL) THEN st
     ELSE IF st.globalHeader = <<>> /\ ToUpper(firstCell) = DATE
       THEN [st EXCEPT !.globalHeader = rowArr]
     ELSE IF matchesLabel(firstCell, SALESPERSON)
       THEN IF namePart = <<>>
              THEN [st EXCEPT !.currentSalesperson = <<>>]
              ELSE [st EXCEPT
                      !.currentSalesperson = name,
                      !.rowsBySalesperson =
                         IF blockIndex(@, name) = 0
                           THEN Append(@, [name |-> name, rows |-> <<>>])
                           ELSE @]
     ELSE IF st.currentSalesperson = <<>> THEN st
     ELSE IF isMetaRow(rowArr) THEN st
     ELSE [st EXCEPT
             !.rowsBySalesperson[k].rows =
                Append(@, rowObject(st.globalHeader, rowArr))]))

\* One iteration of "for (const rowArr of rows)".
segmentRow(st, rowArr) ==
  With(firstCellOf(rowArr), LAMBDA firstCell :
  With(namePartOf(firstCell), LAMBDA namePart :
  LET secondCell == secondCellOf(rowArr)
      name == ToUpper(namePart)
      k == blockIndex(st.rowsBySalesperson, st.currentSalesperson)
  IN IF Includes(ToUpper(secondCell), TOTAL) THEN st
     ELSE IF st.globalHeader = <<>> /\ ToUpper(firstCell) = DATE
       THEN [st EXCEPT !.globalHeader = rowArr]
     ELSE IF matchesLabel(firstCell, SALESPERSON)
       THEN IF namePart = <<>>
              THEN [st EXCEPT !.currentSalesperson = <<>>]
              ELSE [st EXCEPT
                      !.currentSalesperson = name,
                      !.rowsBySalesperson =
                         IF blockIndex(@, name) = 0
                           THEN Append(@, [name |-> name, rows |-> <<>>])
                           ELSE @]
     ELSE IF st.currentSalesperson = <<>> \/ st.globalHeader = <<>> THEN st
     ELSE IF isMetaRow(rowArr) THEN st
     ELSE [st EXCEPT
             !.rowsBySalesperson[k].rows =
                Append(@, rowObject(st.globalHeader, rowArr))]))

RECURSIVE segmentFrom(_, _)
segmentFrom(st, rows) ==
  IF rows = <<>> THEN st
  ELSE With(segmentRow(st, Head(rows)), LAMBDA next :
         segmentFrom(next, Tail(rows)))

\* rowsBySalesperson once the sheet is scanned.
segmentSheet(rows) == segmentFrom(SegInit, rows).rowsBySalesperson

\* blocksToProcess that keeps the blocks without rows.
blocksToProcess_EmptyToo(rows) == segmentSheet(rows)

\* The blocks processExcelFileMulti hands to processRowsForSalesperson:
\* "if (blockRows.length === 0) continue".
blocksToProcess(rows) ==
  SelectSeq(segmentSheet(rows), LAMBDA b : b.rows # <<>>)

\* ------------------------------------------------------------------------
\* The sheets and rows the operations are run on
\* ------------------------------------------------------------------------

RowPool ==
  { (Label.InvoiceNoDot :> Str(<<"i", "1", "*">>))
      @@ (Label.Customer :> Str(<<"R", "a", "n", "d", "o", "m">>))
      @@ (Label.NetInvoice :> Num(10000))
      @@ (Label.AmountRealised :> Num(10000))
      @@ (Label.InvoiceValue :> Num(10000))
      @@ (Label.ItemModel :> Str(<<"v", "i", "d", " ", "x">>))
      @@ (Label.NetAmount :> Num(500)),
    (Label.InvoiceNoDot :> Str(<<>>))
      @@ (Label.ItemModel :> Str(<<" ", "s", "p", "a", "r", "e", "s", "-", "x">>))
      @@ (Label.NetAmt :> Str(<<"2", "0">>)),
    (Label.InvNo :> Str(<<"I", "2">>))
      @@ (Label.Party :> Str(<<" ", "b", "a", "j", "a", "j", " ", "f", "i", "n", "a", "n", "c", "e", " ", "l", "t", "d", " ">>))
      @@ (Label.NetInv :> Num(10000))
      @@ (Label.AmtRealised :> Num(9990))
      @@ (Label.Item :> Str(<<"o", "t", "h">>))
      @@ (Label.NetAmount :> Num(300)),
    (Label.InvoiceNoDot :> Str(<<"I", "3">>))
      @@ (Label.Customer :> Str(<<"R", "a", "n", "d", "o", "m">>))
      @@ (Label.NetInvoice :> Num(10000))
      @@ (Label.AmountRealised :> Num(9994))
      @@ (Label.ItemModel :> Str(<<"V", "I", "D", " ", "2">>))
      @@ (Label.NetAmount :> Num(700)),
    (Label.InvoiceNoDot :> Str(<<"I", "1">>))
      @@ (Label.Customer :> Str(<<"R", "a", "n", "d", "o", "m">>))
      @@ (Label.NetInvoice :> Num(9996))
      @@ (Label.AmountRealised :> Num(10000))
      @@ (Label.ItemModel :> Str(<<"s", "p", "1">>))
      @@ (Label.NetAmount :> Str(<<"1", ",", "0", ".", "5">>)),
    (Label.InvoiceNoDot :> Str(<<"I", "2">>))
      @@ (Label.Customer :> Str(<<"O", "t", "h", "e", "r">>))
      @@ (Label.NetInvoice :> Str(<<"1", ",", "0", "0", "0">>))
      @@ (Label.AmountRealised :> Num(10000))
      @@ (Label.CashDiscount :> Num(10))
      @@ (Label.ItemModel :> Str(<<"S", "p", "a", "r", "e", "s", " ", "k", "i", "t">>))
      @@ (Label.NetAmount :> Num(60)),
    (Label.InvoiceNoDot :> Str(<<" ">>))
      @@ (Label.ItemModel :> Str(<<"v", "i", "d", " ", "0">>))
      @@ (Label.NetAmount :> Str(<<"n", "/", "a">>))
      @@ (Label.InvoiceValue :> Num(5000)) }

SheetRow ==
  [ Branch |-> <<Str(<<"B", "r", "a", "n", "c", "h", " ", ":", " ", "M", "a", "i", "n">>)>>,
    Header |-> <<Str(<<"D", "a", "t", "e">>), Str(<<"I", "n", "v", "o", "i", "c", "e", " ", "N", "o", ".">>), Str(<<"C", "u", "s", "t", "o", "m", "e", "r">>), Str(<<"N", "e", "t", " ", "I", "n", "v", "o", "i", "c", "e">>), Str(<<"A", "m", "o", "u", "n", "t", " ", "R", "e", "a", "l", "i", "s", "e", "d">>), Str(<<>>), Str(<<" ", "I", "t", "e", "m", "/", "M", "o", "d", "e", "l", " ">>), Str(<<"N", "e", "t", " ", "A", "m", "o", "u", "n", "t">>)>>,
    MarkX |-> <<Str(<<"S", "a", "l", "e", "s", "p", "e", "r", "s", "o", "n", ":", " ", "x">>)>>,
    MarkA |-> <<Str(<<"s", "a", "l", "e", "s", "p", "e", "r", "s", "o", "n", " ", ":", " ", "a">>)>>,
    MarkA2 |-> <<Str(<<"S", "A", "L", "E", "S", "P", "E", "R", "S", "O", "N", ":", " ", " ", "A", " ">>)>>,
    MarkB |-> <<Str(<<"S", "a", "l", "e", "s", "p", "e", "r", "s", "o", "n", ":", "B", " ", ":", "w", "e", "s", "t">>)>>,
    MarkNone |-> <<Str(<<"S", "a", "l", "e", "s", "p", "e", "r", "s", "o", "n", ":">>)>>,
    DataI1 |-> <<Str(<<"0", "1", "-", "1", "1">>), Str(<<"i", "1", "*">>), Str(<<"R", "a", "n", "d", "o", "m">>), Num(10000), Num(10000), Str(<<"x">>), Str(<<"v", "i", "d", " ", "x">>), Num(500)>>,
    DataCont |-> <<Str(<<"0", "1", "-", "1", "1">>), Str(<<>>), Str(<<>>), Str(<<>>), Str(<<>>), Str(<<"x">>), Str(<<"o", "t", "h">>), Str(<<"3", "0">>)>>,
    DataI2 |-> <<Str(<<"0", "1", "-", "1", "1">>), Str(<<"I", "2">>), Str(<<"T", "V", "S", " ", "F", "i", "n", "a", "n", "c", "e", " ", "L", "t", "d">>), Num(10000), Num(9990), Str(<<"x">>), Str(<<"o", "t", "h", " ", "2">>), Num(300)>>,
    DataI3 |-> <<Str(<<"0", "1", "-", "1", "1">>), Str(<<"I", "3">>), Str(<<"R", "a", "n", "d", "o", "m">>), Num(10000), Num(9994), Str(<<"x">>), Str(<<"V", "I", "D", " ", "2">>), Num(700)>>,
    DataI4 |-> <<Str(<<"0", "1", "-", "1", "1">>), Str(<<"I", "4">>), Str(<<"W", "a", "l", "k", " ", "i", "n">>), Num(200), Num(200), Str(<<"x">>), Str(<<"v", "i", "d", " ", "4">>), Num(200)>>,
    SubTotal |-> <<Str(<<>>), Str(<<"S", "u", "b", " ", "T", "o", "t", "a", "l">>), Str(<<>>), Num(10000), Num(10000), Str(<<>>), Str(<<>>), Num(530)>>,
    GrandTotal |-> <<Str(<<"G", "r", "a", "n", "d", " ", "T", "o", "t", "a", "l">>), Str(<<>>), Str(<<>>), Str(<<>>), Str(<<>>), Str(<<>>), Str(<<>>), Num(1530)>>,
    Blank |-> <<Str(<<>>), Str(<<>>), Str(<<" ">>), Str(<<>>), Str(<<>>), Str(<<>>), Str(<<>>), Str(<<>>)>>,
    Period |-> <<Str(<<"P", "e", "r", "i", "o", "d", ":", "N", "o", "v">>), Str(<<"I", "9">>), Str(<<"R", "a", "n", "d", "o", "m">>), Num(100), Num(100), Str(<<"x">>), Str(<<"v", "i", "d", " ", "9">>), Num(100)>>,
    Total |-> <<Str(<<" ", "t", "o", "t", "a", "l", " ">>), Str(<<"I", "9">>), Str(<<"R", "a", "n", "d", "o", "m">>), Num(100), Num(100), Str(<<"x">>), Str(<<"v", "i", "d", " ", "9">>), Num(100)>> ]

SalesSheets ==
  { <<SheetRow.Branch, SheetRow.Header, SheetRow.MarkX, SheetRow.DataI4,
      SheetRow.MarkA, SheetRow.DataI1, SheetRow.DataCont, SheetRow.SubTotal,
      SheetRow.MarkB, SheetRow.DataI2, SheetRow.GrandTotal>>,
    <<SheetRow.Header, SheetRow.MarkA, SheetRow.DataI1, SheetRow.MarkB,
      SheetRow.DataI3, SheetRow.Blank, SheetRow.MarkA, SheetRow.DataI4,
      SheetRow.MarkNone, SheetRow.DataI2>>,
    <<SheetRow.MarkA, SheetRow.DataI1, SheetRow.MarkB, SheetRow.DataI2>>,
    <<SheetRow.Header, SheetRow.MarkB, SheetRow.DataI3, SheetRow.MarkA,
      SheetRow.DataI1, SheetRow.Header, SheetRow.DataI4>>,
    <<SheetRow.Header, SheetRow.MarkA, SheetRow.DataI1, SheetRow.MarkB,
      SheetRow.DataI2, SheetRow.MarkA2, SheetRow.DataCont, SheetRow.DataI4>> }

ReturnSheets ==
  { <<<<Str(<<"S", "l">>), Str(<<"R", "e", "f", ".", " ", "D", "o", "c", ".", " ", "I", "n", "f", "o", ".">>)>>, <<Num(10), Str(<<"i", "1", "*", " ", " ", "0", "2", "-", "1", "1">>)>>, <<Num(20), Str(<<>>)>>, <<Num(30), Str(<<"*", "*", "*">>)>>>>,
    <<<<Str(<<"B", "i", "l", "l">>)>>, <<Str(<<"I", "4", " ", "x">>)>>, <<Str(<<" ", "i", "3", " ">>)>>>> }

\* ------------------------------------------------------------------------
\* The collections
\* ------------------------------------------------------------------------

NameA == <<"A">>
NameB == <<"B">>
NameX == <<"X">>

\* Salesperson documents exist for these names; a document's _id is
\* identified with its name (the name is unique).
KnownNames == {NameA, NameB}
Names == KnownNames \cup {NameX}

Periods == {<<2025, 11>>, <<2025, 12>>}

Keys == {<<n, p[1], p[2]>> : n \in Names, p \in Periods}

NoDoc == [none |-> TRUE]

\* upsertSalesperson's stored brand: brand ? brand.trim().toUpperCase() : null
storedBrand(brand) ==
  IF Truthy(brand) THEN Str(ToUpper(Trim(JSString(brand)))) ELSE Null

\* findSalesperson that creates the salesperson it does not find.
findSalesperson_Upsert(directory, salespersonName) ==
  With(ToUpper(Trim(salespersonName)), LAMBDA name :
    [found |-> TRUE, id |-> name,
     brand |-> IF name \in DOMAIN directory THEN directory[name] ELSE Null])

\* Salesperson.findOne({ name: salespersonName.trim().toUpperCase() })
findSalesperson(directory, salespersonName) ==
  With(ToUpper(Trim(salespersonName)), LAMBDA name :
    IF name \in DOMAIN directory
      THEN [found |-> TRUE, id |-> name, brand |-> directory[name]]
      ELSE [found |-> FALSE, id |-> name, brand |-> Null])

\* deleteMany that deletes nothing.
deleteMany_Nothing(store, year, month) == store

\* deleteMany that takes the year for the whole filter.
deleteMany_WholeYear(store, year, month) ==
  [k \in DOMAIN store |-> IF k[2] = year THEN NoDoc ELSE store[k]]

\* MonthlyAchievement.deleteMany({ year, month })
deleteMany(store, year, month) ==
  [k \in DOMAIN store |->
     IF k[2] = year /\ k[3] = month THEN NoDoc ELSE store[k]]

\* upsertAchievement that overwrites an existing document.
upsertAchievement_Overwrite(store, salespersonId, year, month, ownDelta, otherDelta) ==
  [store EXCEPT ![<<salespersonId, year, month>>] =
     [ownAchievement |-> ownDelta,
      otherAchievement |-> otherDelta,
      totalAchievement |-> ownDelta + otherDelta]]

\* upsertAchievement that adds own and other but replaces the total.
upsertAchievement_TotalReplaced(store, salespersonId, year, month, ownDelta, otherDelta) ==
  LET key == <<salespersonId, year, month>>
      existing == store[key]
  IN [store EXCEPT ![key] =
        [ownAchievement |-> IF existing # NoDoc
                              THEN existing.ownAchievement + ownDelta ELSE ownDelta,
         otherAchievement |-> IF existing # NoDoc
                                THEN existing.otherAchievement + otherDelta
                                ELSE otherDelta,
         totalAchievement |-> ownDelta + otherDelta]]

\* upsertAchievement with the own delta for the total delta.
upsertAchievement_TotalOwnOnly(store, salespersonId, year, month, ownDelta, otherDelta) ==
  LET key == <<salespersonId, year, month>>
      existing == store[key]
      totalDelta == ownDelta
  IN IF existing # NoDoc
       THEN [store EXCEPT ![key] =
               [ownAchievement |-> existing.ownAchievement + ownDelta,
                otherAchievement |-> existing.otherAchievement + otherDelta,
                totalAchievement |-> existing.totalAchievement + totalDelta]]
       ELSE [store EXCEPT ![key] =
               [ownAchievement |-> ownDelta,
                otherAchievement |-> otherDelta,
                totalAchievement |-> totalDelta]]

upsertAchievement(store, salespersonId, year, month, ownDelta, otherDelta) ==
  LET key == <<salespersonId, year, month>>
      existing == store[key]
      totalDelta == ownDelta + otherDelta
  IN IF existing # NoDoc
       THEN [store EXCEPT ![key] =
               [ownAchievement |-> existing.ownAchievement + ownDelta,
                otherAchievement |-> existing.otherAchievement + otherDelta,
                totalAchievement |-> existing.totalAchievement + totalDelta]]
       ELSE [store EXCEPT ![key] =
               [ownAchievement |-> ownDelta,
                otherAchievement |-> otherDelta,
                totalAchievement |-> totalDelta]]

\* reconcileBlock that hands over the other total without the factor.
reconcileBlock_OtherUnsigned(rows, salespersonName, directory, factor, returnSet) ==
  With(aggregateInvoices(rows), LAMBDA invoices :
  With(findSalesperson(directory, salespersonName), LAMBDA salesperson :
  With(IF salesperson.found
         THEN reconcileTrace(TotalsInit, invoices, ownBrandOf(salesperson.brand),
                             returnSet)
         ELSE <<>>, LAMBDA trace :
  With(reconcileTotals(trace), LAMBDA totals :
     [name |-> salespersonName,
      found |-> salesperson.found,
      id |-> salesperson.id,
      brand |-> salesperson.brand,
      invoices |-> invoices,
      returnSet |-> returnSet,
      trace |-> trace,
      factor |-> factor,
      totalOwn |-> totals.totalOwn,
      totalOther |-> totals.totalOther,
      finalOwn |-> factor * totals.totalOwn,
      finalOther |-> totals.totalOther]))))

\* processRowsForSalesperson up to its call of upsertAchievement: what it
\* built, what it logged and the deltas it hands over.
reconcileBlock(rows, salespersonName, directory, factor, returnSet) ==
  With(aggregateInvoices(rows), LAMBDA invoices :
  With(findSalesperson(directory, salespersonName), LAMBDA salesperson :
  With(IF salesperson.found
         THEN reconcileTrace(TotalsInit, invoices, ownBrandOf(salesperson.brand),
                             returnSet)
         ELSE <<>>, LAMBDA trace :
  With(reconcileTotals(trace), LAMBDA totals :
     [name |-> salespersonName,
      found |-> salesperson.found,
      id |-> salesperson.id,
      brand |-> salesperson.brand,
      invoices |-> invoices,
      returnSet |-> returnSet,
      trace |-> trace,
      factor |-> factor,
      totalOwn |-> totals.totalOwn,
      totalOther |-> totals.totalOther,
      finalOwn |-> factor * totals.totalOwn,
      finalOther |-> factor * totals.totalOther]))))

\* The store after processRowsForSalesperson.
storeAfterBlock(store, blk, year, month) ==
  IF blk.found
    THEN upsertAchievement(store, blk.id, year, month, blk.finalOwn, blk.finalOther)
    ELSE store

\* ------------------------------------------------------------------------
\* State
\* ------------------------------------------------------------------------

MaxBlockRows == 2
MaxPasses == 2
MaxMerges == 3
MaxUploads == 2

VARIABLES
  salespersons,     \* the Salesperson collection: name -> stored brand
  targets,          \* the MonthlyTarget collection: key -> target
  achievements,     \* the MonthlyAchievement collection: key -> document
  salesSheet,       \* the sales file of the upload requests
  returnSheet,      \* the returns file of the upload requests
  blockRows,        \* the rows argument of direct processRowsForSalesperson calls
  returnInvoiceSet, \* their returnInvoiceSet argument
  upload,           \* the /api/upload-sales handler
  pass,             \* history: the last processRowsForSalesperson call
  ledger,           \* history: per key, the merges since the key was last cleared
  done,             \* history: per period and returns flag, the period's documents
                    \* when such an upload last answered ok (<<>> before that)
  ops,              \* history: the number of calls made
  twin,             \* history: a processRowsForSalesperson call on twin rows
  agg,              \* the loop over rows of processRowsForSalesperson, row by row
  seg,              \* the loop over rows of processExcelFileMulti, row by row
  call,             \* a call of a helper function: its argument and its result
  race              \* upload requests in flight together, each at one of its awaits

vars == <<salespersons, targets, achievements, salesSheet, returnSheet, blockRows,
          returnInvoiceSet, upload, pass, ledger, done, ops, twin, agg, seg,
          call, race>>

RawBrands ==
  {Undef, Str(<<" ", "v", "i", "d">>), Str(<<" ">>), Str(<<"s", "p">>)}

StoredBrands == {storedBrand(b) : b \in RawBrands}

BlockRowLists == UNION {[1..n -> RowPool] : n \in 1..MaxBlockRows}

ReturnSets == {{}, {<<"I", "1">>, <<"I", "3">>}}

Deltas == {[own |-> 0 - 50, other |-> 0], [own |-> 70, other |-> 30],
           [own |-> 0, other |-> 25]}

NoPass == [found |-> FALSE, name |-> <<>>]

IdleUpload ==
  [pc |-> "idle", status |-> "none", year |-> 0, month |-> 0,
   hasReturns |-> FALSE, queue |-> <<>>, returnSet |-> {},
   before |-> <<>>, blocks |-> <<>>]

EmptyStore == [k \in Keys |-> NoDoc]

\* The loop over rows before its first row: the loop's variables, the rows
\* taken so far and the loop's variables before the last row taken.
AggStart == [st |-> AggInit, rows |-> <<>>, before |-> AggInit]

SegStart == [st |-> SegInit, rows |-> <<>>, before |-> SegInit]

NoCall == [fn |-> "none"]

\* The upload requests that can be in flight together.
Requests == {1, 2}

\* A request that has not arrived. overlapped tells that another request was
\* in flight while this one was.
IdleRequest ==
  [pc |-> "idle", status |-> "none", year |-> 0, month |-> 0, blocks |-> <<>>,
   task |-> <<>>, overlapped |-> FALSE]

\* A block whose call of processRowsForSalesperson has not been made. Of its
\* call of upsertAchievement: the deltas, the document findOne returned, the
\* document stored just before and just after save, whether the other
\* request saved or cleared the key between findOne and save, and whether
\* save succeeded.
NewTask ==
  [pc |-> "new", found |-> FALSE, id |-> <<>>, own |-> 0, other |-> 0,
   seen |-> NoDoc, before |-> NoDoc, after |-> NoDoc, raced |-> FALSE,
   swept |-> FALSE, ok |-> TRUE]

\* The variables that hold no document of MonthlyAchievement, before any
\* request.
InitRest ==
  /\ targets = [k \in {j \in Keys : j[1] \in KnownNames} |-> 1000]
  /\ upload = IdleUpload
  /\ pass = NoPass
  /\ ledger = [k \in Keys |-> <<>>]
  /\ done = [p \in Periods \X BOOLEAN |-> <<>>]
  /\ ops = 0
  /\ twin = NoPass
  /\ agg = AggStart
  /\ seg = SegStart
  /\ call = NoCall
  /\ race = [r \in Requests |-> IdleRequest]

InitCommon ==
  /\ achievements = EmptyStore
  /\ InitRest

\* ------------------------------------------------------------------------
\* Operations
\* ------------------------------------------------------------------------

steps == <<twin, agg, seg, call, race>>

inputs == <<salespersons, targets, salesSheet, returnSheet, blockRows, returnInvoiceSet>>

ledgerAfterMerge(key, ownDelta, otherDelta, factor, store) ==
  [ledger EXCEPT ![key] =
     Append(@, [ownDelta |-> ownDelta, otherDelta |-> otherDelta,
                factor |-> factor, after |-> store[key]])]

ledgerAfterClear(year, month) ==
  [k \in Keys |-> IF k[2] = year /\ k[3] = month THEN <<>> ELSE ledger[k]]

\* A call of upsertAchievement.
Merge(id, p, d) ==
  /\ ops < MaxMerges
  /\ achievements' = upsertAchievement(achievements, id, p[1], p[2], d.own, d.other)
  /\ ledger' = ledgerAfterMerge(<<id, p[1], p[2]>>, d.own, d.other, 1, achievements')
  /\ ops' = ops + 1
  /\ UNCHANGED <<inputs, steps, upload, pass, done>>

\* A call of MonthlyAchievement.deleteMany for a period.
ClearPeriod(p, limit) ==
  /\ ops < limit
  /\ achievements' = deleteMany(achievements, p[1], p[2])
  /\ ledger' = ledgerAfterClear(p[1], p[2])
  /\ ops' = ops + 1
  /\ UNCHANGED <<inputs, steps, upload, pass, done>>

\* A call of processRowsForSalesperson(blockRows, name, year, month, factor,
\* returnInvoiceSet), one of at most limit calls.
ProcessRowsUpTo(limit, name, p, factor) ==
  /\ ops < limit
  /\ pass' = reconcileBlock(blockRows, name, salespersons, factor, returnInvoiceSet)
  /\ achievements' = storeAfterBlock(achievements, pass', p[1], p[2])
  /\ ledger' = IF pass'.found
                 THEN ledgerAfterMerge(<<pass'.id, p[1], p[2]>>, pass'.finalOwn,
                                       pass'.finalOther, factor, achievements')
                 ELSE ledger
  /\ ops' = ops + 1
  /\ UNCHANGED <<inputs, steps, upload, done>>

ProcessRows(name, p, factor) == ProcessRowsUpTo(MaxPasses, name, p, factor)

\* The documents of a period, by salesperson.
PeriodDocs(store, year, month) == [n \in Names |-> store[<<n, year, month>>]]

\* POST /api/upload-sales without year or month: 400 before anything else.
UploadRejectNoPeriod ==
  /\ upload.pc = "idle"
  /\ ops < MaxUploads
  /\ upload' = [IdleUpload EXCEPT !.status = "rejected", !.before = achievements]
  /\ ops' = ops + 1
  /\ UNCHANGED <<inputs, steps, achievements, pass, ledger, done>>

\* POST /api/upload-sales with year and month, up to the end of
\* "await MonthlyAchievement.deleteMany(...)".
UploadClear(p, hasSales, hasReturns) ==
  /\ upload.pc = "idle"
  /\ ops < MaxUploads
  /\ achievements' = deleteMany(achievements, p[1], p[2])
  /\ ledger' = ledgerAfterClear(p[1], p[2])
  /\ upload' = [IdleUpload EXCEPT
                  !.pc = IF hasSales THEN "cleared" ELSE "nofile",
                  !.year = p[1], !.month = p[2],
                  !.hasReturns = hasReturns,
                  !.before = achievements]
  /\ ops' = ops + 1
  /\ UNCHANGED <<inputs, steps, pass, done>>

\* if (!salesUploaded) return res.status(400)
UploadRejectNoSales ==
  /\ upload.pc = "nofile"
  /\ upload' = [upload EXCEPT !.pc = "idle", !.status = "rejected"]
  /\ UNCHANGED <<inputs, steps, achievements, pass, ledger, done, ops>>

\* extractReturnInvoiceSet and the row loop of processExcelFileMulti.
UploadParse ==
  /\ upload.pc = "cleared"
  /\ upload' = With(blocksToProcess(salesSheet), LAMBDA blocks :
                  [upload EXCEPT
                     !.pc = "blocks",
                     !.returnSet = IF upload.hasReturns
                                     THEN extractReturnInvoiceSet(returnSheet)
                                     ELSE {},
                     !.queue = blocks,
                     !.blocks = blocks])
  /\ UNCHANGED <<inputs, steps, achievements, pass, ledger, done, ops>>

\* One iteration of "for (const name of salespersonNames)":
\* await processRowsForSalesperson(blockRows, name, year, month, 1, returnInvoiceSet)
UploadBlock ==
  /\ upload.pc = "blocks"
  /\ upload.queue # <<>>
  /\ pass' = reconcileBlock(Head(upload.queue).rows, Head(upload.queue).name,
                            salespersons, 1, upload.returnSet)
  /\ achievements' = storeAfterBlock(achievements, pass', upload.year, upload.month)
  /\ ledger' = IF pass'.found
                 THEN ledgerAfterMerge(<<pass'.id, upload.year, upload.month>>,
                                       pass'.finalOwn, pass'.finalOther, 1,
                                       achievements')
                 ELSE ledger
  /\ upload' = [upload EXCEPT !.queue = Tail(@)]
  /\ UNCHANGED <<inputs, steps, done, ops>>

\* res.json({ ok: true, ... })
UploadRespond ==
  /\ upload.pc = "blocks"
  /\ upload.queue = <<>>
  /\ upload' = [upload EXCEPT !.pc = "idle", !.status = "ok"]
  /\ done' = [done EXCEPT ![<<<<upload.year, upload.month>>, upload.hasReturns>>] =
                <<PeriodDocs(achievements, upload.year, upload.month)>>]
  /\ UNCHANGED <<inputs, steps, achievements, pass, ledger, ops>>

\* ------------------------------------------------------------------------
\* Specifications
\* ------------------------------------------------------------------------

DirectoryWith(brandA) == (NameA :> brandA) @@ (NameB :> Null)

\* Upload requests, one after another, for one sales file and one returns
\* file.
Init ==
  /\ InitCommon
  /\ salespersons \in {DirectoryWith(b) : b \in {Null, storedBrand(Str(<<"v", "i", "d">>))}}
  /\ salesSheet \in SalesSheets
  /\ returnSheet \in ReturnSheets
  /\ blockRows = <<>>
  /\ returnInvoiceSet = {}

Next ==
  \/ UploadRejectNoPeriod
  \/ \E p \in Periods, hasSales \in BOOLEAN, hasReturns \in BOOLEAN :
       UploadClear(p, hasSales, hasReturns)
  \/ UploadRejectNoSales
  \/ UploadParse
  \/ UploadBlock
  \/ UploadRespond

Spec == Init /\ [][Next]_vars

\* Upload requests, one after another, on collections that hold documents
\* of earlier uploads: none, one for each known salesperson in each period,
\* or one for salesperson B in each period. The sales file is one of
\* SalesSheets or a sheet with a block of salesperson A only.
InitFrame ==
  /\ achievements \in
       { [k \in Keys |-> IF k[1] \in held
                           THEN [ownAchievement |-> 100, otherAchievement |-> 200,
                                 totalAchievement |-> 300]
                           ELSE NoDoc] : held \in {{}, KnownNames, {NameB}} }
  /\ InitRest
  /\ salespersons = DirectoryWith(storedBrand(Str(<<"v", "i", "d">>)))
  /\ salesSheet \in SalesSheets \cup
                     {<<SheetRow.Header, SheetRow.MarkA, SheetRow.DataI1>>}
  /\ returnSheet \in ReturnSheets
  /\ blockRows = <<>>
  /\ returnInvoiceSet = {}

FrameSpec == InitFrame /\ [][Next]_vars

\* Direct calls of processRowsForSalesperson for one block of rows.
EnginePeriod == CHOOSE p \in Periods : p[2] = 11

InitEngine ==
  /\ InitCommon
  /\ salespersons \in {DirectoryWith(b) : b \in StoredBrands}
  /\ salesSheet = <<>>
  /\ returnSheet = <<>>
  /\ blockRows \in BlockRowLists
  /\ returnInvoiceSet \in ReturnSets

NextEngine ==
  \/ \E factor \in {1, 0 - 1} : ProcessRows(<<"a", " ">>, EnginePeriod, factor)
  \/ ClearPeriod(EnginePeriod, MaxPasses)

EngineSpec == InitEngine /\ [][NextEngine]_vars

\* Direct calls of processRowsForSalesperson for one block of rows, with
\* factor 1 and factor -1 in any order.
NextReverse ==
  \E factor \in {1, 0 - 1} :
    ProcessRowsUpTo(MaxMerges, <<"a", " ">>, EnginePeriod, factor)

ReverseSpec == InitEngine /\ [][NextReverse]_vars

\* Direct calls of upsertAchievement.
InitMerge ==
  /\ InitCommon
  /\ salespersons = DirectoryWith(Null)
  /\ salesSheet = <<>>
  /\ returnSheet = <<>>
  /\ blockRows = <<>>
  /\ returnInvoiceSet = {}

NextMerge ==
  \/ \E id \in KnownNames, p \in Periods, d \in Deltas : Merge(id, p, d)
  \/ \E p \in Periods : ClearPeriod(p, MaxMerges)

MergeSpec == InitMerge /\ [][NextMerge]_vars

\* ------------------------------------------------------------------------
\* Two calls of processRowsForSalesperson on rows that differ only in the
\* adjustment cells
\* ------------------------------------------------------------------------

\* The columns read into invoiceValue, ccCharges, negRoundOff, posRoundOff
\* and cashDiscount.
AdjustmentLabels ==
  {Label.InvoiceValue, Label.InvValue, Label.CreditCardCharges,
   Label.NegRoundOff, Label.PosRoundOff, Label.CashDiscount}

\* The rows with every one of those cells replaced by one cell; all other
\* cells are as they were.
WithAdjustments(rows, cell) ==
  [i \in DOMAIN rows |->
     [l \in DOMAIN rows[i] \cup AdjustmentLabels |->
        IF l \in AdjustmentLabels THEN cell ELSE rows[i][l]]]

AdjustmentCells == {Undef, Num(770), Num(0 - 25), Str(<<"9", ",", "5">>)}

\* A call of processRowsForSalesperson(twin rows, name, year, month, 1,
\* returnInvoiceSet) after a call on blockRows.
ProcessTwin(name, p, cell) ==
  /\ pass.found
  /\ twin = NoPass
  /\ twin' = reconcileBlock(WithAdjustments(blockRows, cell), name, salespersons,
                            1, returnInvoiceSet)
  /\ achievements' = storeAfterBlock(achievements, twin', p[1], p[2])
  /\ ledger' = IF twin'.found
                 THEN ledgerAfterMerge(<<twin'.id, p[1], p[2]>>, twin'.finalOwn,
                                       twin'.finalOther, 1, achievements')
                 ELSE ledger
  /\ UNCHANGED <<inputs, upload, pass, done, ops, agg, seg, call, race>>

NextTwin ==
  \/ ProcessRows(<<"a", " ">>, EnginePeriod, 1)
  \/ \E cell \in AdjustmentCells : ProcessTwin(<<"a", " ">>, EnginePeriod, cell)

TwinSpec == InitEngine /\ [][NextTwin]_vars

\* ------------------------------------------------------------------------
\* The loop over rows of processRowsForSalesperson, one row at a time
\* ------------------------------------------------------------------------

MaxAggRows == 3

\* The rows of RowPool, a row without an invoice number column, a row whose
\* invoice number is made of marker characters only, and rows with cells
\* under more than one of the invoice number labels: blanks ahead of a
\* number, two numbers, and the number 0 ahead of a number.
AggRowPool ==
  RowPool \cup
  { (Label.ItemModel :> Str(<<"o", "t", "h", " ", "9">>)) @@ (Label.NetAmount :> Num(40)),
    (Label.InvoiceNoDot :> Str(<<" ", "*", "*", " ">>)) @@ (Label.ItemModel :> Str(<<"v", "i", "d", " ", "s">>))
      @@ (Label.NetAmount :> Num(90)) @@ (Label.InvoiceValue :> Num(900)),
    (Label.InvoiceNoDot :> Str(<<" ">>)) @@ (Label.InvNo :> Str(<<"I", "7">>))
      @@ (Label.ItemModel :> Str(<<"o", "t", "h", " ", "7">>)) @@ (Label.NetAmount :> Num(70)),
    (Label.InvoiceNo :> Str(<<"I", "5">>)) @@ (Label.InvNo :> Str(<<"I", "6">>))
      @@ (Label.ItemModel :> Str(<<"v", "i", "d", " ", "5">>)) @@ (Label.NetAmount :> Num(50)),
    (Label.INVOICE_NO :> Num(0)) @@ (Label.Invoice :> Str(<<"I", "8">>))
      @@ (Label.ItemModel :> Str(<<"o", "t", "h", " ", "8">>)) @@ (Label.NetAmount :> Num(80)) }

\* One iteration of "for (const row of rows)" in processRowsForSalesperson.
AggregateRow(row) ==
  /\ Len(agg.rows) < MaxAggRows
  /\ agg' = [st |-> aggregateRow(agg.st, row),
             rows |-> Append(agg.rows, row),
             before |-> agg.st]
  /\ UNCHANGED <<inputs, achievements, upload, pass, ledger, done, ops, twin,
                 seg, call, race>>

InitSteps ==
  /\ InitCommon
  /\ salespersons = DirectoryWith(Null)
  /\ salesSheet = <<>>
  /\ returnSheet = <<>>
  /\ blockRows = <<>>
  /\ returnInvoiceSet = {}

NextAgg == \E row \in AggRowPool : AggregateRow(row)

AggSpec == InitSteps /\ [][NextAgg]_vars

\* ------------------------------------------------------------------------
\* Calls of the helper functions
\* ------------------------------------------------------------------------

MaxStrLen == 3
MaxReturnRows == 2

\* The strings of at most n characters of an alphabet.
Strings(alphabet, n) == UNION {[1..k -> alphabet] : k \in 0..n}

InvoiceNoChars == {"g", "7", " ", "*"}

NumChars == {"1", "5", ",", ".", " ", "-", "a"}

NumCells ==
  {Undef, Null, Num(0), Num(125), Num(0 - 30)}
    \cup {Str(s) : s \in Strings(NumChars, MaxStrLen)}

ReturnHeaders ==
  { <<Str(<<"S", "l">>), Str(<<" ", "r", "e", "f", ".", " ", "d", "o", "c", ".", " ", "i", "n", "f", "o", ".">>), Str(<<"R", "e", "f", ".", " ", "D", "o", "c", ".", " ", "2">>)>>,
    <<Str(<<"B", "i", "l", "l">>), Str(<<"D", "o", "c">>)>>,
    <<>> }

ReturnRows ==
  { <<Str(<<"i", "1", "*", " ", " ", "0", "2", "-", "1", "1">>), Str(<<"i", "2", " ", "x">>)>>,
    <<Str(<<" ", "g", "/", "7", "*", "*", " ">>), Str(<<>>)>>,
    <<Str(<<>>), Str(<<" ">>)>>,
    <<Str(<<"*", "*", "*">>), Str(<<"*", " ", "i", "3">>)>>,
    <<Str(<<"I", "2">>), Str(<<"i", "1">>)>>,
    <<Str(<<"i", "9">>)>> }

ReturnFiles ==
  {<<>>} \cup
  {<<h>> \o body : h \in ReturnHeaders,
                   body \in UNION {[1..n -> ReturnRows] : n \in 0..MaxReturnRows}}

\* normalizeInvoiceNo(v) for a string, and normalizeInvoiceNo of what it
\* returned.
CallNormalizeInvoiceNo(v) ==
  /\ call = NoCall
  /\ call' = With(normalizeInvoiceNo(v), LAMBDA once :
               [fn |-> "normalizeInvoiceNo", arg |-> v, result |-> once,
                again |-> normalizeInvoiceNo(once)])
  /\ UNCHANGED <<inputs, achievements, upload, pass, ledger, done, ops, twin,
                 agg, seg, race>>

\* num(val)
CallNum(val) ==
  /\ call = NoCall
  /\ call' = [fn |-> "num", arg |-> val, result |-> num(val)]
  /\ UNCHANGED <<inputs, achievements, upload, pass, ledger, done, ops, twin,
                 agg, seg, race>>

\* extractReturnInvoiceSet(filePath) for the rows of the file's first sheet.
CallExtractReturnInvoiceSet(rows) ==
  /\ call = NoCall
  /\ call' = [fn |-> "extractReturnInvoiceSet", arg |-> rows,
              result |-> extractReturnInvoiceSet(rows)]
  /\ UNCHANGED <<inputs, achievements, upload, pass, ledger, done, ops, twin,
                 agg, seg, race>>

NextHelper ==
  \/ \E v \in Strings(InvoiceNoChars, MaxStrLen) : CallNormalizeInvoiceNo(v)
  \/ \E val \in NumCells : CallNum(val)
  \/ \E rows \in ReturnFiles : CallExtractReturnInvoiceSet(rows)

HelperSpec == InitSteps /\ [][NextHelper]_vars

\* ------------------------------------------------------------------------
\* The loop over rows of processExcelFileMulti, one row at a time
\* ------------------------------------------------------------------------

MaxSegRows == 3

\* Rows of the sales sheets, among them every kind of summary row, a second
\* header row with other labels, a header row and a marker row whose second
\* cell has "total" in it.
SegRowPool ==
  { SheetRow.Header, SheetRow.MarkA, SheetRow.MarkB, SheetRow.MarkNone,
    SheetRow.DataI1, SheetRow.SubTotal, SheetRow.Blank, SheetRow.GrandTotal,
    SheetRow.Branch, SheetRow.Period, SheetRow.Total,
    <<Str(<<" ", "d", "a", "t", "e", " ">>), Str(<<"I", "n", "v", " ", "N", "o">>), Str(<<"P", "a", "r", "t", "y">>), Str(<<"N", "e", "t", " ", "I", "n", "v">>), Str(<<"A", "m", "t", " ", "R", "e", "a", "l", "i", "s", "e", "d">>), Str(<<>>), Str(<<"I", "t", "e", "m">>), Str(<<"N", "e", "t", " ", "A", "m", "t">>)>>,
    <<Str(<<"D", "A", "T", "E">>), Str(<<"T", "o", "t", "a", "l", " ", "I", "n", "v", "o", "i", "c", "e", " ", "N", "o", ".">>), Str(<<"C", "u", "s", "t", "o", "m", "e", "r">>), Str(<<"N", "e", "t", " ", "I", "n", "v", "o", "i", "c", "e">>), Str(<<"A", "m", "o", "u", "n", "t", " ", "R", "e", "a", "l", "i", "s", "e", "d">>), Str(<<>>), Str(<<"I", "t", "e", "m", "/", "M", "o", "d", "e", "l">>), Str(<<"N", "e", "t", " ", "A", "m", "o", "u", "n", "t">>)>>,
    <<Str(<<"S", "a", "l", "e", "s", "p", "e", "r", "s", "o", "n", ":", " ", "c">>), Str(<<"t", "o", "t", "a", "l">>)>> }

\* One iteration of "for (const rowArr of rows)" in processExcelFileMulti.
SegmentRow(rowArr) ==
  /\ upload = IdleUpload
  /\ Len(seg.rows) < MaxSegRows
  /\ seg' = [st |-> segmentRow(seg.st, rowArr),
             rows |-> Append(seg.rows, rowArr),
             before |-> seg.st]
  /\ UNCHANGED <<inputs, achievements, upload, pass, ledger, done, ops, twin,
                 agg, call, race>>

\* The end of the sheet in processExcelFileMulti(filePath, year, month) with
\* no returnInvoiceSet: salespersonNames and the blocks that have rows.
SegmentEnd(p) ==
  /\ upload = IdleUpload
  /\ upload' = With(SelectSeq(seg.st.rowsBySalesperson, LAMBDA b : b.rows # <<>>),
                    LAMBDA blocks :
                  [IdleUpload EXCEPT
                     !.pc = "blocks", !.year = p[1], !.month = p[2],
                     !.queue = blocks, !.blocks = blocks,
                     !.before = achievements])
  /\ UNCHANGED <<inputs, steps, achievements, pass, ledger, done, ops>>

\* The rows of a sheet one at a time, then the loop over its blocks.
NextSeg ==
  \/ \E rowArr \in SegRowPool : SegmentRow(rowArr)
  \/ SegmentEnd(EnginePeriod)
  \/ UploadBlock

SegSpec == InitSteps /\ [][NextSeg]_vars

\* ------------------------------------------------------------------------
\* Upload requests in flight together
\* ------------------------------------------------------------------------

\* upsertAchievement from "if (existing)" on, with the document its findOne
\* returned: existing.save() sets the three values of the stored document and
\* doc.save() inserts a document. The unique index on (salesperson, year,
\* month) rejects a second document for the key. existing.save() of a document
\* deleted meanwhile either throws or does nothing, depending on the version
\* of the library (lenient).
saveAchievement(store, key, existing, ownDelta, otherDelta, lenient) ==
  IF existing # NoDoc
    THEN IF store[key] = NoDoc
           THEN [store |-> store, ok |-> lenient]
           ELSE [store |-> [store EXCEPT ![key] =
                   [ownAchievement |-> existing.ownAchievement + ownDelta,
                    otherAchievement |-> existing.otherAchievement + otherDelta,
                    totalAchievement |-> existing.totalAchievement
                                           + (ownDelta + otherDelta)]],
                 ok |-> TRUE]
    ELSE IF store[key] # NoDoc
           THEN [store |-> store, ok |-> FALSE]
           ELSE [store |-> [store EXCEPT ![key] =
                   [ownAchievement |-> ownDelta,
                    otherAchievement |-> otherDelta,
                    totalAchievement |-> ownDelta + otherDelta]],
                 ok |-> TRUE]

\* A loop over the blocks that calls processRowsForSalesperson without
\* awaiting it.
mayStart_NoAwait(task, i) == TRUE

\* "await processRowsForSalesperson(...)" in "for (const name of
\* salespersonNames)": the call for a block is made when the calls for the
\* blocks before it have returned.
mayStart(task, i) == \A j \in 1..(i - 1) : task[j].pc = "end"

InFlight(request) == request.pc \in {"cleared", "blocks"}

TaskKey(request, i) == <<request.task[i].id, request.year, request.month>>

\* The sheets of the requests: two blocks of known salespersons, and a block
\* of an unknown salesperson ahead of a block of a known one.
RaceSheets ==
  { <<SheetRow.Header, SheetRow.MarkA, SheetRow.DataI1, SheetRow.MarkB,
      SheetRow.DataI2>>,
    <<SheetRow.Header, SheetRow.MarkX, SheetRow.DataI3, SheetRow.MarkA,
      SheetRow.DataI4>> }

\* POST /api/upload-sales with year, month and a sales file, up to the end of
\* "await MonthlyAchievement.deleteMany(...)".
RaceClear(r, p) ==
  /\ race[r] = IdleRequest
  /\ achievements' = deleteMany(achievements, p[1], p[2])
  /\ ledger' = ledgerAfterClear(p[1], p[2])
  /\ race' = [q \in Requests |->
       IF q = r
         THEN [IdleRequest EXCEPT
                 !.pc = "cleared", !.year = p[1], !.month = p[2],
                 !.overlapped = \E o \in Requests \ {r} : InFlight(race[o])]
       ELSE IF InFlight(race[q])
         THEN [race[q] EXCEPT
                 !.overlapped = TRUE,
                 !.task = [i \in DOMAIN @ |->
                             IF @[i].pc = "write" /\ race[q].year = p[1]
                                /\ race[q].month = p[2]
                               THEN [@[i] EXCEPT !.swept = TRUE]
                               ELSE @[i]]]
       ELSE race[q]]
  /\ UNCHANGED <<inputs, twin, agg, seg, call, upload, pass, done, ops>>

\* The row loop of processExcelFileMulti on the request's sales file.
RaceParse(r, sheet) ==
  /\ race[r].pc = "cleared"
  /\ race' = With(blocksToProcess(sheet), LAMBDA blocks :
               [race EXCEPT ![r].pc = "blocks", ![r].blocks = blocks,
                            ![r].task = [i \in DOMAIN blocks |-> NewTask]])
  /\ UNCHANGED <<inputs, twin, agg, seg, call, achievements, upload, pass,
                 ledger, done, ops>>

\* processRowsForSalesperson for a block up to "await
\* MonthlyAchievement.findOne(...)" in upsertAchievement, or to its return
\* for an unknown salesperson.
RaceLookup(r, i) ==
  /\ race[r].pc = "blocks"
  /\ i \in DOMAIN race[r].task
  /\ race[r].task[i].pc = "new"
  /\ mayStart(race[r].task, i)
  /\ race' = With(reconcileBlock(race[r].blocks[i].rows, race[r].blocks[i].name,
                                 salespersons, 1, {}), LAMBDA blk :
               [race EXCEPT ![r].task[i] =
                  IF blk.found
                    THEN [@ EXCEPT !.pc = "read", !.found = TRUE, !.id = blk.id,
                                   !.own = blk.finalOwn, !.other = blk.finalOther]
                    ELSE [@ EXCEPT !.pc = "end"]])
  /\ UNCHANGED <<inputs, twin, agg, seg, call, achievements, upload, pass,
                 ledger, done, ops>>

\* "const existing = await MonthlyAchievement.findOne(...)"
RaceRead(r, i) ==
  /\ race[r].pc = "blocks"
  /\ i \in DOMAIN race[r].task
  /\ race[r].task[i].pc = "read"
  /\ race' = [race EXCEPT ![r].task[i].pc = "write",
                          ![r].task[i].seen = achievements[TaskKey(race[r], i)]]
  /\ UNCHANGED <<inputs, twin, agg, seg, call, achievements, upload, pass,
                 ledger, done, ops>>

\* "await existing.save()" or "await doc.save()"; when it throws, the request
\* is answered 500 and its remaining blocks are not processed.
RaceWrite(r, i, lenient) ==
  /\ race[r].pc = "blocks"
  /\ i \in DOMAIN race[r].task
  /\ race[r].task[i].pc = "write"
  /\ LET key == TaskKey(race[r], i)
         t == race[r].task[i]
         saved == saveAchievement(achievements, key, t.seen, t.own, t.other,
                                  lenient)
     IN /\ achievements' = saved.store
        /\ ledger' = IF saved.ok /\ saved.store # achievements
                       THEN ledgerAfterMerge(key, t.own, t.other, 1, saved.store)
                       ELSE ledger
        /\ race' = [q \in Requests |->
             IF q = r
               THEN [race[r] EXCEPT
                       !.pc = IF saved.ok THEN "blocks" ELSE "idle",
                       !.status = IF saved.ok THEN @ ELSE "failed",
                       !.task[i] = [t EXCEPT !.pc = "end", !.ok = saved.ok,
                                             !.before = achievements[key],
                                             !.after = saved.store[key]]]
               ELSE [race[q] EXCEPT
                       !.task = [j \in DOMAIN @ |->
                                   IF /\ @[j].pc = "write"
                                      /\ TaskKey(race[q], j) = key
                                      /\ saved.store # achievements
                                     THEN [@[j] EXCEPT !.raced = TRUE]
                                     ELSE @[j]]]]
  /\ UNCHANGED <<inputs, twin, agg, seg, call, upload, pass, done, ops>>

\* res.json({ ok: true, ... }) once the call for every block has returned.
RaceRespond(r) ==
  /\ race[r].pc = "blocks"
  /\ \A i \in DOMAIN race[r].task : race[r].task[i].pc = "end"
  /\ race' = [race EXCEPT ![r].pc = "idle", ![r].status = "ok"]
  /\ UNCHANGED <<inputs, twin, agg, seg, call, achievements, upload, pass,
                 ledger, done, ops>>

NextRace ==
  \/ \E r \in Requests : RaceClear(r, EnginePeriod)
  \/ \E r \in Requests, sheet \in RaceSheets : RaceParse(r, sheet)
  \/ \E r \in Requests, i \in 1..2 : RaceLookup(r, i)
  \/ \E r \in Requests, i \in 1..2 : RaceRead(r, i)
  \/ \E r \in Requests, i \in 1..2, lenient \in BOOLEAN : RaceWrite(r, i, lenient)
  \/ \E r \in Requests : RaceRespond(r)

RaceSpec == InitSteps /\ [][NextRace]_vars

\* ------------------------------------------------------------------------
\* Properties
\* ------------------------------------------------------------------------

RECURSIVE SumOwnDeltas(_)
SumOwnDeltas(entries) ==
  IF entries = <<>> THEN 0
  ELSE Head(entries).ownDelta + SumOwnDeltas(Tail(entries))

RECURSIVE SumOtherDeltas(_)
SumOtherDeltas(entries) ==
  IF entries = <<>> THEN 0
  ELSE Head(entries).otherDelta + SumOtherDeltas(Tail(entries))

RECURSIVE SumTotalDeltas(_)
SumTotalDeltas(entries) ==
  IF entries = <<>> THEN 0
  ELSE (Head(entries).ownDelta + Head(entries).otherDelta)
         + SumTotalDeltas(Tail(entries))

\* C1: for every key, after any sequence of merges with no clear of the key
\* in between, the stored own, other and total are the sums of the merged
\* ownDeltas, otherDeltas and (ownDelta + otherDelta); the first merge on a
\* missing key leaves a document holding exactly its deltas.
MergeIsAdditive ==
  \A k \in Keys :
    ledger[k] # <<>> =>
      /\ achievements[k] # NoDoc
      /\ achievements[k].ownAchievement = SumOwnDeltas(ledger[k])
      /\ achievements[k].otherAchievement = SumOtherDeltas(ledger[k])
      /\ achievements[k].totalAchievement = SumTotalDeltas(ledger[k])
      /\ ledger[k][1].after =
           [ownAchievement |-> ledger[k][1].ownDelta,
            otherAchievement |-> ledger[k][1].otherDelta,
            totalAchievement |-> ledger[k][1].ownDelta + ledger[k][1].otherDelta]

\* Three merges with different deltas have gone into one key.
MergedThrice ==
  \E k \in Keys :
    /\ Len(ledger[k]) = 3
    /\ ledger[k][1].ownDelta # ledger[k][2].ownDelta
    /\ ledger[k][2].otherDelta # ledger[k][3].otherDelta
    /\ achievements[k].totalAchievement # 0

\* The upload handler is about to answer ok: every block has been processed.
UploadComplete == upload.pc = "blocks" /\ upload.queue = <<>>

UploadKey == <<<<upload.year, upload.month>>, upload.hasReturns>>

\* C2: when an upload of the sales file (with the same returns file or again
\* without one) for a period completes after an earlier such upload for that
\* period did, the period's documents are exactly those the earlier upload
\* left.
UploadIsIdempotent ==
  (UploadComplete /\ done[UploadKey] # <<>>) =>
    PeriodDocs(achievements, upload.year, upload.month) = done[UploadKey][1]

\* A second upload of the same files for the period completes and the
\* period holds a non-zero total.
SecondUploadComplete ==
  /\ UploadComplete
  /\ done[UploadKey] # <<>>
  /\ \E n \in Names :
       /\ achievements[<<n, upload.year, upload.month>>] # NoDoc
       /\ achievements[<<n, upload.year, upload.month>>].totalAchievement # 0

\* C3: when an upload request is rejected for a missing input, the
\* MonthlyAchievement collection is as it was when the request arrived.
RejectedUploadChangesNothing ==
  (upload.pc = "idle" /\ upload.status = "rejected") =>
    achievements = upload.before

Doubled(doc) ==
  [ownAchievement |-> 2 * doc.ownAchievement,
   otherAchievement |-> 2 * doc.otherAchievement,
   totalAchievement |-> 2 * doc.totalAchievement]

\* C4: when the same rows are reconciled and merged twice (factor 1) into a
\* key with no clear in between, the stored own, other and total after the
\* second pass are twice those after the first.
TwoPassesDouble ==
  \A k \in Keys :
    (Len(ledger[k]) >= 2 /\ ledger[k][1].factor = 1 /\ ledger[k][2].factor = 1) =>
      ledger[k][2].after = Doubled(ledger[k][1].after)

\* Two passes with factor 1 have been merged and the totals are not zero.
TwoPassesMerged ==
  \E k \in Keys :
    /\ Len(ledger[k]) = 2
    /\ ledger[k][1].factor = 1
    /\ ledger[k][2].factor = 1
    /\ achievements[k].ownAchievement # 0
    /\ achievements[k].otherAchievement # 0

\* C5: a block whose salesperson is not in the directory leads to no
\* document for that name, and once every block of the file has been handled
\* each block of a known salesperson has been merged exactly once.
UnknownBlockIsSkipped ==
  /\ \A k \in Keys :
       k[1] \notin DOMAIN salespersons =>
         achievements[k] = NoDoc /\ ledger[k] = <<>>
  /\ UploadComplete =>
       \A i \in DOMAIN upload.blocks :
         upload.blocks[i].name \in DOMAIN salespersons =>
           Len(ledger[<<upload.blocks[i].name, upload.year, upload.month>>]) = 1

\* An upload completes whose file has a block of an unknown salesperson ahead
\* of a block of a known one, and the known one's document is not zero.
UnknownBlockThenKnown ==
  /\ UploadComplete
  /\ \E i, j \in DOMAIN upload.blocks :
       /\ i < j
       /\ upload.blocks[i].name \notin DOMAIN salespersons
       /\ upload.blocks[j].name \in DOMAIN salespersons
       /\ achievements[<<upload.blocks[j].name, upload.year, upload.month>>] # NoDoc
       /\ achievements[<<upload.blocks[j].name, upload.year, upload.month>>]
            .totalAchievement # 0

\* totalOwn and totalOther when the i-th invoice of the pass is reached.
TotalsBefore(i) ==
  IF i = 1 THEN TotalsInit
  ELSE [totalOwn |-> pass.trace[i - 1].totalOwn,
        totalOther |-> pass.trace[i - 1].totalOther]

TotalsAfter(i) ==
  [totalOwn |-> pass.trace[i].totalOwn, totalOther |-> pass.trace[i].totalOther]

\* The invoice's own-net and other-net, were it reconciled on its own with
\* no return list.
WouldContribute(inv) ==
  With(classifyItems(inv.items, ownBrandOf(pass.brand)), LAMBDA lines :
    lines.ownNet # 0 \/ lines.otherNet # 0)

CanonicalCustomer(inv) == ToUpper(Trim(JSString(inv.customer)))

HasCreditMismatch(inv) ==
  MathRound(inv.netInvoice) # MathRound(inv.amountRealised)

\* C6: an invoice whose number is in the return set leaves totalOwn and
\* totalOther as they were.
ReturnedInvoiceAddsNothing ==
  pass.found =>
    \A i \in DOMAIN pass.trace :
      pass.trace[i].inv.invoiceNo \in pass.returnSet =>
        TotalsAfter(i) = TotalsBefore(i)

\* A returned invoice with matching amounts and a non-zero line was met.
ReturnedInvoiceMet ==
  /\ pass.found
  /\ \E i \in DOMAIN pass.trace :
       /\ pass.trace[i].inv.invoiceNo \in pass.returnSet
       /\ ~HasCreditMismatch(pass.trace[i].inv)
       /\ WouldContribute(pass.trace[i].inv)

\* C7: an invoice with round(netInvoice) # round(amountRealised) whose
\* trimmed, uppercased customer is no finance customer leaves totalOwn and
\* totalOther as they were.
MismatchAddsNothing ==
  pass.found =>
    \A i \in DOMAIN pass.trace :
      (/\ HasCreditMismatch(pass.trace[i].inv)
       /\ CanonicalCustomer(pass.trace[i].inv) \notin FINANCE_CUSTOMERS) =>
        TotalsAfter(i) = TotalsBefore(i)

\* A mismatched invoice of an ordinary customer, not returned and with a
\* non-zero line, was met.
MismatchMet ==
  /\ pass.found
  /\ \E i \in DOMAIN pass.trace :
       /\ HasCreditMismatch(pass.trace[i].inv)
       /\ CanonicalCustomer(pass.trace[i].inv) \notin FINANCE_CUSTOMERS
       /\ pass.trace[i].inv.invoiceNo \notin pass.returnSet
       /\ WouldContribute(pass.trace[i].inv)

ModelText(item) == JSString(JSOr(item.model, EmptyStr))

IsSparesModel(item) == StartsWith(ToUpper(Trim(ModelText(item))), SPARES)

HasValuedLine(inv) ==
  \E j \in DOMAIN inv.items :
    inv.items[j].netAmount # 0 /\ ~IsSparesModel(inv.items[j])

\* The invoice with its amountRealised made equal to its netInvoice.
WithoutMismatch(inv) == [inv EXCEPT !.amountRealised = inv.netInvoice]

\* C8: a mismatched invoice of a finance customer, not returned and with a
\* non-zero non-spares line, adds its own-net to totalOwn and its other-net
\* to totalOther, as the same invoice without the mismatch does.
FinanceMismatchIsIncluded ==
  pass.found =>
    \A i \in DOMAIN pass.trace :
      (/\ HasCreditMismatch(pass.trace[i].inv)
       /\ CanonicalCustomer(pass.trace[i].inv) \in FINANCE_CUSTOMERS
       /\ pass.trace[i].inv.invoiceNo \notin pass.returnSet
       /\ HasValuedLine(pass.trace[i].inv)) =>
        With(lastOf(pass.trace[i].lines, LinesInit), LAMBDA lines :
          /\ pass.trace[i].totalOwn = TotalsBefore(i).totalOwn + lines.ownNet
          /\ pass.trace[i].totalOther = TotalsBefore(i).totalOther + lines.otherNet
          /\ With(reconcileInvoice(TotalsBefore(i), WithoutMismatch(pass.trace[i].inv),
                                   ownBrandOf(pass.brand), pass.returnSet),
                  LAMBDA same :
               /\ pass.trace[i].totalOwn = same.totalOwn
               /\ pass.trace[i].totalOther = same.totalOther))

\* A mismatched invoice of a finance customer was met and raised a total.
FinanceMismatchMet ==
  /\ pass.found
  /\ \E i \in DOMAIN pass.trace :
       /\ HasCreditMismatch(pass.trace[i].inv)
       /\ CanonicalCustomer(pass.trace[i].inv) \in FINANCE_CUSTOMERS
       /\ pass.trace[i].inv.invoiceNo \notin pass.returnSet
       /\ HasValuedLine(pass.trace[i].inv)
       /\ TotalsAfter(i) # TotalsBefore(i)

\* sparesTotal, ownNet and otherNet when the j-th item is reached.
LinesBefore(lines, j) == IF j = 1 THEN LinesInit ELSE lines[j - 1]

AddsToOwn(lines, j, amount) ==
  lines[j] = [LinesBefore(lines, j) EXCEPT !.ownNet = @ + amount]

AddsToOther(lines, j, amount) ==
  lines[j] = [LinesBefore(lines, j) EXCEPT !.otherNet = @ + amount]

AddsToSpares(lines, j, amount) ==
  lines[j] = [LinesBefore(lines, j) EXCEPT !.sparesTotal = @ + amount]

\* Every non-spares line with a non-zero amount, of every invoice that is
\* not returned, goes to own when isOwn(item) and to other otherwise.
LinesClassifiedBy(isOwn(_)) ==
  pass.found =>
    \A i \in DOMAIN pass.trace :
      pass.trace[i].event # "return" =>
        \A j \in DOMAIN pass.trace[i].inv.items :
          With(pass.trace[i].inv.items[j], LAMBDA item :
            (item.netAmount # 0 /\ ~IsSparesModel(item)) =>
              IF isOwn(item)
                THEN AddsToOwn(pass.trace[i].lines, j, item.netAmount)
                ELSE AddsToOther(pass.trace[i].lines, j, item.netAmount))

\* C9 as stated: a line is own iff the salesperson's brand is not null and
\* the uppercased model starts with it, and other otherwise; with no brand
\* the own total of the pass is 0.
OwnIffBrandNotNull ==
  /\ LinesClassifiedBy(LAMBDA item :
       pass.brand # Null /\ StartsWith(ToUpper(ModelText(item)), pass.brand.str))
  /\ (pass.found /\ pass.brand = Null) => pass.totalOwn = 0

\* C9 as amended: a line is own iff the salesperson's brand is neither null
\* nor the empty string and the uppercased model starts with it, and other
\* otherwise; with a null or empty brand the own total of the pass is 0.
OwnIffBrandNotEmpty ==
  /\ LinesClassifiedBy(LAMBDA item :
       /\ pass.brand # Null
       /\ pass.brand.str # <<>>
       /\ StartsWith(ToUpper(ModelText(item)), pass.brand.str))
  /\ (pass.found /\ (pass.brand = Null \/ pass.brand = EmptyStr)) =>
       pass.totalOwn = 0

\* A pass for a salesperson with a brand has put a line into own and a line
\* into other.
OwnAndOtherLinesMet ==
  /\ pass.found
  /\ pass.brand # Null
  /\ pass.brand # EmptyStr
  /\ pass.totalOwn # 0
  /\ pass.totalOther # 0

\* C10: a line whose trimmed, uppercased model starts with SPARES adds its
\* amount to sparesTotal and leaves own-net and other-net alone, whatever the
\* salesperson's brand is.
SparesLineOnlyInSpares ==
  pass.found =>
    \A i \in DOMAIN pass.trace :
      pass.trace[i].event # "return" =>
        \A j \in DOMAIN pass.trace[i].inv.items :
          IsSparesModel(pass.trace[i].inv.items[j]) =>
            AddsToSpares(pass.trace[i].lines, j,
                         pass.trace[i].inv.items[j].netAmount)

\* A spares line with a non-zero amount was met whose uppercased model starts
\* with the salesperson's brand.
SparesLineOfOwnBrandMet ==
  /\ pass.found
  /\ pass.brand # Null
  /\ pass.brand # EmptyStr
  /\ \E i \in DOMAIN pass.trace :
       /\ pass.trace[i].event # "return"
       /\ \E j \in DOMAIN pass.trace[i].inv.items :
            /\ IsSparesModel(pass.trace[i].inv.items[j])
            /\ pass.trace[i].inv.items[j].netAmount # 0
            /\ StartsWith(ToUpper(ModelText(pass.trace[i].inv.items[j])),
                          pass.brand.str)

\* C11: a call of processRowsForSalesperson on rows that differ from an
\* earlier call's rows only in the invoice value, credit card charges, round
\* off and cash discount cells ends with the same totalOwn and totalOther.
TotalsIgnoreAdjustments ==
  twin # NoPass =>
    twin.totalOwn = pass.totalOwn /\ twin.totalOther = pass.totalOther

\* The second call is over; the first counted an invoice with a spares line
\* and a non-zero own total, and the two calls saw different final invoice
\* values for it.
AdjustedInvoiceCounted ==
  /\ twin # NoPass
  /\ pass.totalOwn # 0
  /\ \E i \in DOMAIN pass.trace :
       /\ pass.trace[i].event = "accepted"
       /\ pass.trace[i].adjustedInvoice # finalInvoiceValue(pass.trace[i].inv)
       /\ finalInvoiceValue(twin.trace[i].inv) # finalInvoiceValue(pass.trace[i].inv)

\* The row the loop over rows took last, and its place in the row list.
RowTaken == agg.rows[Len(agg.rows)]

\* The invoice-number cell is absent, null, empty or made of blanks.
BlankInvoiceCell(row) ==
  LET c == invNoCell(row)
  IN \/ c = Undef
     \/ c = Null
     \/ IsStr(c) /\ Trim(c.str) = <<>>

\* The canonical invoice number written in the row's own cell (<<>> when
\* the cell is blank or holds marker characters only).
CanonicalOf(row) ==
  IF BlankInvoiceCell(row) THEN <<>>
  ELSE StripTrailingStars(ToUpper(Trim(JSString(invNoCell(row)))))

\* The last non-blank canonical invoice number in rows 1 .. n - 1 (<<>> when
\* there is none).
LastCanonicalBefore(rows, n) ==
  LET seen == {i \in 1..(n - 1) : CanonicalOf(rows[i]) # <<>>}
  IN IF seen = {} THEN <<>>
     ELSE CanonicalOf(rows[CHOOSE i \in seen : \A j \in seen : j <= i])

\* The line items of the invoice with that number (<<>> when there is no
\* such invoice).
ItemsOf(invoices, invoiceNo) ==
  IF \E k \in DOMAIN invoices : invoices[k].invoiceNo = invoiceNo
    THEN invoices[CHOOSE k \in DOMAIN invoices :
                    invoices[k].invoiceNo = invoiceNo].items
    ELSE <<>>

NumbersOf(invoices) == {invoices[k].invoiceNo : k \in DOMAIN invoices}

\* The last row taken became the last line item of the invoice with that
\* number, which existed already, and of no other invoice.
AttachedTo(invoiceNo) ==
  /\ invoiceNo \in NumbersOf(agg.before.invoices)
  /\ NumbersOf(agg.st.invoices) = NumbersOf(agg.before.invoices)
  /\ \A n \in NumbersOf(agg.st.invoices) :
       ItemsOf(agg.st.invoices, n) =
         IF n = invoiceNo
           THEN Append(ItemsOf(agg.before.invoices, n), lineItem(RowTaken))
           ELSE ItemsOf(agg.before.invoices, n)

\* C12: a row with a blank invoice-number cell becomes a line item of the
\* invoice of the last non-blank canonical invoice number of the rows before
\* it, and with no such number before it, it changes no invoice.
BlankRowInherits ==
  (agg.rows # <<>> /\ BlankInvoiceCell(RowTaken)) =>
    With(LastCanonicalBefore(agg.rows, Len(agg.rows)), LAMBDA last :
      IF last = <<>>
        THEN agg.st.invoices = agg.before.invoices
        ELSE AttachedTo(last))

\* Three rows were taken: a blank one ahead of every number, which was
\* dropped, a numbered one, and a blank one, which joined the numbered one.
BlankRowDroppedThenInherited ==
  /\ Len(agg.rows) = 3
  /\ BlankInvoiceCell(agg.rows[1])
  /\ CanonicalOf(agg.rows[2]) # <<>>
  /\ BlankInvoiceCell(agg.rows[3])
  /\ Len(agg.st.invoices) = 1
  /\ Len(agg.st.invoices[1].items) = 2

\* The invoice number the i-th row counts under: its own canonical number, or
\* for a blank cell the last one before it (<<>>: the row is dropped).
NumberOfRow(rows, i) ==
  IF BlankInvoiceCell(rows[i]) THEN LastCanonicalBefore(rows, i)
  ELSE CanonicalOf(rows[i])

\* The line items of the rows that count under the number, in row order.
RECURSIVE ItemsUnder(_, _, _)
ItemsUnder(rows, n, invoiceNo) ==
  IF n = 0 THEN <<>>
  ELSE IF NumberOfRow(rows, n) = invoiceNo
    THEN Append(ItemsUnder(rows, n - 1, invoiceNo), lineItem(rows[n]))
    ELSE ItemsUnder(rows, n - 1, invoiceNo)

\* C13: after any rows, no two invoices of the map have the same number, the
\* numbers are those of the rows that were not dropped, and the line items of
\* each invoice are the rows that count under its number, in row order.
OneInvoicePerNumber ==
  /\ \A j, k \in DOMAIN agg.st.invoices :
       agg.st.invoices[j].invoiceNo = agg.st.invoices[k].invoiceNo => j = k
  /\ NumbersOf(agg.st.invoices) =
       {NumberOfRow(agg.rows, i) : i \in DOMAIN agg.rows} \ {<<>>}
  /\ \A k \in DOMAIN agg.st.invoices :
       agg.st.invoices[k].items =
         ItemsUnder(agg.rows, Len(agg.rows), agg.st.invoices[k].invoiceNo)

\* Three rows were taken: a number, another number, and the first number
\* again written differently; there are two invoices and the first has two
\* line items.
NumberReappeared ==
  /\ Len(agg.rows) = 3
  /\ ~BlankInvoiceCell(agg.rows[3])
  /\ CanonicalOf(agg.rows[1]) = CanonicalOf(agg.rows[3])
  /\ CanonicalOf(agg.rows[2]) \notin {<<>>, CanonicalOf(agg.rows[1])}
  /\ invNoCell(agg.rows[1]) # invNoCell(agg.rows[3])
  /\ Len(agg.st.invoices) = 2
  /\ Len(agg.st.invoices[1].items) = 2

\* The seven invoice-level monetary fields, each with the value a row
\* supplies for it.
MoneyFields ==
  {"netInvoice", "amountRealised", "invoiceValue", "ccCharges", "negRoundOff",
   "posRoundOff", "cashDiscount"}

Supplied(row, field) ==
  CASE field = "netInvoice" -> netInvoiceOf(row)
    [] field = "amountRealised" -> amountRealisedOf(row)
    [] field = "invoiceValue" -> invoiceValueOf(row)
    [] field = "ccCharges" -> ccChargesOf(row)
    [] field = "negRoundOff" -> negRoundOffOf(row)
    [] field = "posRoundOff" -> posRoundOffOf(row)
    [] field = "cashDiscount" -> cashDiscountOf(row)

InvoiceOf(invoices, invoiceNo) ==
  invoices[CHOOSE k \in DOMAIN invoices : invoices[k].invoiceNo = invoiceNo]

\* C14: when a row joins an invoice that exists already, each monetary field
\* that was not 0 stays as it was and each field that was 0 takes the value
\* the row supplies (which leaves it 0 when that is 0); the fields of every
\* other invoice stay as they were.
FirstNonZeroWins ==
  agg.rows # <<>> =>
    \A n \in NumbersOf(agg.before.invoices), f \in MoneyFields :
      With(InvoiceOf(agg.before.invoices, n)[f], LAMBDA was :
        /\ n \in NumbersOf(agg.st.invoices)
        /\ InvoiceOf(agg.st.invoices, n)[f] =
             IF n = NumberOfRow(agg.rows, Len(agg.rows)) /\ was = 0
               THEN Supplied(RowTaken, f)
               ELSE was)

\* The last row joined an existing invoice, supplied a non-zero value other
\* than the one held for one field, which was kept, and a non-zero value for
\* a field that was 0, which was taken.
FieldKeptAndFieldFilled ==
  /\ agg.rows # <<>>
  /\ NumberOfRow(agg.rows, Len(agg.rows)) \in NumbersOf(agg.before.invoices)
  /\ \E f, g \in MoneyFields :
       LET was == InvoiceOf(agg.before.invoices, NumberOfRow(agg.rows, Len(agg.rows)))
           now == InvoiceOf(agg.st.invoices, NumberOfRow(agg.rows, Len(agg.rows)))
       IN /\ was[f] # 0
          /\ Supplied(RowTaken, f) \notin {0, was[f]}
          /\ now[f] = was[f]
          /\ was[g] = 0
          /\ Supplied(RowTaken, g) # 0
          /\ now[g] = Supplied(RowTaken, g)

\* C15: normalizeInvoiceNo of what normalizeInvoiceNo returned is what it
\* returned.
NormalizeIsIdempotent ==
  call.fn = "normalizeInvoiceNo" => call.again = call.result

\* The cell is undefined, null, empty or made of blanks.
BlankCell(c) ==
  \/ c = Undef
  \/ c = Null
  \/ IsStr(c) /\ \A i \in DOMAIN c.str : c.str[i] = " "

\* The text of a string cell without its commas and without the blanks
\* around it.
NumeralText(c) == Trim(SelectSeq(c.str, LAMBDA ch : ch # ","))

\* digits, digits.digits, digits. or .digits
UnsignedDecimal(t) ==
  \E d \in 0..Len(t) :
    /\ \A i \in 1..d : IsDigit(t[i])
    /\ \/ d = Len(t) /\ d > 0
       \/ /\ d < Len(t)
          /\ t[d + 1] = "."
          /\ \A i \in (d + 2)..Len(t) : IsDigit(t[i])
          /\ Len(t) > 1

\* An optional sign and an unsigned decimal.
DecimalNumeral(t) ==
  /\ t # <<>>
  /\ IF t[1] \in {"-", "+"} THEN UnsignedDecimal(Tail(t)) ELSE UnsignedDecimal(t)

\* The value of a decimal numeral in tenths, digit by digit: a digit i places
\* left of the point weighs 10^i tenths, the first digit right of it one
\* tenth, the later ones nothing.
RECURSIVE Pow10(_)
Pow10(n) == IF n = 0 THEN 1 ELSE 10 * Pow10(n - 1)

DecimalValue(t) ==
  LET u == IF t[1] \in {"-", "+"} THEN Tail(t) ELSE t
      point == IF \E i \in DOMAIN u : u[i] = "."
                 THEN CHOOSE i \in DOMAIN u : u[i] = "."
                 ELSE Len(u) + 1
      weight(i) == IF i < point THEN Pow10(point - i)
                   ELSE IF i = point + 1 THEN 1 ELSE 0
      RECURSIVE sum(_)
      sum(i) == IF i = 0 THEN 0
                ELSE sum(i - 1) + (IF IsDigit(u[i]) THEN DigitVal(u[i]) * weight(i) ELSE 0)
  IN (IF t[1] = "-" THEN 0 - 1 ELSE 1) * sum(Len(u))

ReturnCellText(rowArr, col) ==
  IF col \in DOMAIN rowArr /\ IsStr(rowArr[col]) THEN Trim(rowArr[col].str)
  ELSE <<>>

\* The text up to its first blank.
FirstWord(text) ==
  LET blanks == {i \in DOMAIN text : text[i] = " "}
  IN IF blanks = {} THEN text
     ELSE SubSeq(text, 1, (CHOOSE i \in blanks : \A j \in blanks : i <= j) - 1)

\* The first column whose header starts with "REF. DOC", or the first column
\* of the sheet.
ChosenColumn(headerRow) ==
  LET named == {i \in DOMAIN headerRow :
                  /\ IsStr(headerRow[i])
                  /\ StartsWith(ToUpper(Trim(headerRow[i].str)), REF_DOC)}
  IN IF named = {} THEN 1 ELSE CHOOSE i \in named : \A j \in named : i <= j

\* C17: the return set is the set of the non-empty canonical invoice numbers
\* of the first words of the chosen column's non-blank cells in the rows
\* after the first row.
ReturnSetIsFirstWords ==
  call.fn = "extractReturnInvoiceSet" =>
    call.result =
      IF call.arg = <<>> THEN {}
      ELSE {StripTrailingStars(ToUpper(FirstWord(
              ReturnCellText(call.arg[i], ChosenColumn(call.arg[1]))))) :
              i \in 2..Len(call.arg)} \ {<<>>}

\* A sheet whose header names the column in its second and third cells, whose
\* first row would add a number and whose later rows hold a blank cell and a
\* cell of two words: the set has the canonical first word only.
ReturnColumnChosen ==
  /\ call.fn = "extractReturnInvoiceSet"
  /\ Len(call.arg) = 3
  /\ ChosenColumn(call.arg[1]) = 2
  /\ \E i \in 2..3 : ReturnCellText(call.arg[i], 2) = <<>>
  /\ \E i \in 2..3 :
       /\ FirstWord(ReturnCellText(call.arg[i], 2)) # ReturnCellText(call.arg[i], 2)
       /\ call.result = {ToUpper(FirstWord(ReturnCellText(call.arg[i], 2)))}
  /\ \E i \in 2..3 : ReturnCellText(call.arg[i], 1) \notin {<<>>} \cup call.result

\* The text of the n-th cell of a sheet row without the blanks around it.
CellText(rowArr, n) ==
  IF n \in DOMAIN rowArr /\ IsStr(rowArr[n]) THEN Trim(rowArr[n].str) ELSE <<>>

\* The first cell is "Date" in any case.
IsDateRow(rowArr) == ToUpper(CellText(rowArr, 1)) = <<"D", "A", "T", "E">>

\* The first row of the rows whose first cell is "Date" (<<>> when there is
\* none).
FirstDateRow(rows) ==
  LET dated == {i \in DOMAIN rows : IsDateRow(rows[i])}
  IN IF dated = {} THEN <<>>
     ELSE rows[CHOOSE i \in dated : \A j \in dated : i <= j]

\* C18: after any rows of a sheet, the shared header is the first of them
\* whose first cell is "Date" in any case, and there is none when no row has
\* such a first cell.
HeaderIsFirstDateRow ==
  seg.st.globalHeader = FirstDateRow(seg.rows)


\* The first cell reads "Salesperson", blanks or none, and a colon, in any
\* case.
IsMarkerRow(rowArr) ==
  LET text == CellText(rowArr, 1)
  IN /\ Len(text) > 11
     /\ ToUpper(SubSeq(text, 1, 11)) = SALESPERSON
     /\ \E c \in 12..Len(text) :
          text[c] = ":" /\ \A i \in 12..(c - 1) : text[i] = " "

\* The name of a marker row: the text between its first colon and its next
\* colon or its end, without the blanks around it.
MarkerName(rowArr) ==
  LET text == CellText(rowArr, 1)
      colons == {i \in DOMAIN text : text[i] = ":"}
      first == CHOOSE i \in colons : \A j \in colons : i <= j
      later == {i \in colons : i > first}
      stop == IF later = {} THEN Len(text) + 1
              ELSE CHOOSE i \in later : \A j \in later : i <= j
  IN Trim(SubSeq(text, first + 1, stop - 1))

\* The sheet row the loop took last.
SheetRowTaken == seg.rows[Len(seg.rows)]

\* The rows of the list of a name (<<>> when the name has no list).
ListOf(st, name) ==
  IF \E k \in DOMAIN st.rowsBySalesperson : st.rowsBySalesperson[k].name = name
    THEN st.rowsBySalesperson[CHOOSE k \in DOMAIN st.rowsBySalesperson :
                                st.rowsBySalesperson[k].name = name].rows
    ELSE <<>>

ListNames(st) == {st.rowsBySalesperson[k].name : k \in DOMAIN st.rowsBySalesperson}

\* C19: a marker row with a name makes the uppercased name the current
\* salesperson and a marker row without a name makes it none; any other row
\* leaves the current salesperson as it is and adds rows to no list but the
\* current salesperson's, and to no list when there is none.
MarkerSetsCurrentSalesperson ==
  seg.rows # <<>> =>
    IF IsMarkerRow(SheetRowTaken)
      THEN seg.st.currentSalesperson = ToUpper(MarkerName(SheetRowTaken))
      ELSE /\ seg.st.currentSalesperson = seg.before.currentSalesperson
           /\ \A n \in ListNames(seg.st) :
                n # seg.before.currentSalesperson =>
                  ListOf(seg.st, n) = ListOf(seg.before, n)

\* The text reads the word, blanks or none, and a colon, in any case.
HasLabel(text, word) ==
  /\ Len(text) > Len(word)
  /\ ToUpper(SubSeq(text, 1, Len(word))) = word
  /\ \E c \in (Len(word) + 1)..Len(text) :
       text[c] = ":" /\ \A i \in (Len(word) + 1)..(c - 1) : text[i] = " "

\* Every cell of the row is missing or a text of blanks.
IsBlankRow(rowArr) ==
  \A n \in DOMAIN rowArr :
    \/ rowArr[n] \in {Undef, Null}
    \/ IsStr(rowArr[n]) /\ Trim(rowArr[n].str) = <<>>

\* A summary row: all cells blank, a first cell "total" or "grand total", a
\* first cell labelled branch or period, or "total" in the second cell.
IsSummaryRow(rowArr) ==
  \/ IsBlankRow(rowArr)
  \/ ToUpper(CellText(rowArr, 1)) \in {TOTAL, GRAND_TOTAL}
  \/ HasLabel(CellText(rowArr, 1), BRANCH)
  \/ HasLabel(CellText(rowArr, 1), PERIOD)
  \/ Includes(ToUpper(CellText(rowArr, 2)), TOTAL)

\* The place of the first "Date" row of the sheet (0 when there is none).
HeaderPlace(sheet) ==
  LET dated == {i \in DOMAIN sheet : IsDateRow(sheet[i])}
  IN IF dated = {} THEN 0 ELSE CHOOSE i \in dated : \A j \in dated : i <= j

\* The uppercased name of the last marker row at or before place i (<<>>
\* when there is none or it has no name).
NameAt(sheet, i) ==
  LET markers == {j \in 1..i : IsMarkerRow(sheet[j])}
  IN IF markers = {} THEN <<>>
     ELSE ToUpper(MarkerName(sheet[CHOOSE j \in markers : \A k \in markers : k <= j]))

\* The places of the data rows that stand under markers of the name, in
\* sheet order.
DataPlaces(sheet, name) ==
  With(HeaderPlace(sheet), LAMBDA h :
    SelectSeq([i \in DOMAIN sheet |-> i], LAMBDA i :
      /\ h # 0
      /\ i > h
      /\ ~IsMarkerRow(sheet[i])
      /\ ~IsSummaryRow(sheet[i])
      /\ NameAt(sheet, i) = name))

\* Those rows, labelled by the header.
DataRowsOf(sheet, name) ==
  With(DataPlaces(sheet, name), LAMBDA places :
    [k \in DOMAIN places |->
       rowObject(sheet[HeaderPlace(sheet)], sheet[places[k]])])

NamesIn(sheet) == {NameAt(sheet, i) : i \in DOMAIN sheet} \ {<<>>}

\* C20: once the file is parsed there is one block per name, holding the
\* data rows under all the markers of that name in sheet order, and once all
\* blocks are handled each known name has had one merge, with the totals of
\* all its rows reconciled together.
RepeatedNameIsOneBlock ==
  upload.pc = "blocks" =>
    /\ \A j, k \in DOMAIN upload.blocks :
         upload.blocks[j].name = upload.blocks[k].name => j = k
    /\ \A n \in NamesIn(salesSheet) :
         DataRowsOf(salesSheet, n) # <<>> =>
           \E k \in DOMAIN upload.blocks : upload.blocks[k].name = n
    /\ \A k \in DOMAIN upload.blocks :
         With(DataRowsOf(salesSheet, upload.blocks[k].name), LAMBDA rows :
           /\ upload.blocks[k].rows = rows
           /\ (UploadComplete /\ upload.blocks[k].name \in DOMAIN salespersons) =>
                With(ledger[<<upload.blocks[k].name, upload.year, upload.month>>],
                     LAMBDA merges :
                  With(reconcileBlock(rows, upload.blocks[k].name, salespersons,
                                      1, upload.returnSet), LAMBDA whole :
                    /\ Len(merges) = 1
                    /\ merges[1].ownDelta = whole.finalOwn
                    /\ merges[1].otherDelta = whole.finalOther)))

\* An upload is complete whose sheet names a known salesperson in two marker
\* rows spelled differently with another salesperson's rows between them;
\* that salesperson's block has rows from under both markers and its
\* document is not zero.
RepeatedNameMerged ==
  /\ UploadComplete
  /\ \E i, j, m \in DOMAIN salesSheet :
       /\ i < m /\ m < j
       /\ IsMarkerRow(salesSheet[i]) /\ IsMarkerRow(salesSheet[j])
       /\ IsMarkerRow(salesSheet[m])
       /\ CellText(salesSheet[i], 1) # CellText(salesSheet[j], 1)
       /\ NameAt(salesSheet, i) = NameAt(salesSheet, j)
       /\ NameAt(salesSheet, m) # NameAt(salesSheet, i)
       /\ NameAt(salesSheet, i) \in DOMAIN salespersons
       /\ \E p, q \in 1..Len(DataPlaces(salesSheet, NameAt(salesSheet, i))) :
            /\ DataPlaces(salesSheet, NameAt(salesSheet, i))[p] < m
            /\ DataPlaces(salesSheet, NameAt(salesSheet, i))[q] > j
       /\ achievements[<<NameAt(salesSheet, i), upload.year, upload.month>>] # NoDoc
       /\ achievements[<<NameAt(salesSheet, i), upload.year, upload.month>>]
            .totalAchievement # 0

\* The lists of the loop over the sheet's rows are as they were before the
\* row taken last.
ListsUnchanged ==
  \A n \in ListNames(seg.st) \cup ListNames(seg.before) :
    ListOf(seg.st, n) = ListOf(seg.before, n)

\* C21: a row is added to a list only when the header was captured and a
\* current salesperson was set before the row was scanned; while no row
\* scanned has "Date" for its first cell every list is empty, and the loop
\* over the blocks of such a sheet hands no block on, merges nothing and
\* leaves every document as it was.
RowsNeedHeaderAndSalesperson ==
  /\ (seg.rows # <<>> /\ ~ListsUnchanged) =>
       /\ seg.before.globalHeader # <<>>
       /\ seg.before.currentSalesperson # <<>>
  /\ FirstDateRow(seg.rows) = <<>> =>
       /\ \A n \in ListNames(seg.st) : ListOf(seg.st, n) = <<>>
       /\ upload.pc = "blocks" =>
            /\ upload.blocks = <<>>
            /\ achievements = upload.before
            /\ \A k \in Keys : ledger[k] = <<>>

\* The sheet's end is reached for a sheet without a "Date" row that has a
\* data row under the marker of a known salesperson.
HeaderlessSheetHandled ==
  /\ upload.pc = "blocks"
  /\ FirstDateRow(seg.rows) = <<>>
  /\ \E i \in DOMAIN seg.rows :
       /\ ~IsMarkerRow(seg.rows[i])
       /\ ~IsSummaryRow(seg.rows[i])
       /\ NameAt(seg.rows, i) \in DOMAIN salespersons

\* The text starts with the word and a colon, in any case.
StartsWithLabel(text, word) ==
  /\ Len(text) > Len(word)
  /\ ToUpper(SubSeq(text, 1, Len(word))) = word
  /\ text[Len(word) + 1] = ":"

\* A meta or summary row.
IsMetaOrSummaryRow(rowArr) ==
  \/ IsBlankRow(rowArr)
  \/ ToUpper(CellText(rowArr, 1)) \in {TOTAL, GRAND_TOTAL}
  \/ StartsWithLabel(CellText(rowArr, 1), BRANCH)
  \/ StartsWithLabel(CellText(rowArr, 1), PERIOD)
  \/ \E i \in 1..Len(CellText(rowArr, 2)) :
       \E j \in i..Len(CellText(rowArr, 2)) :
         ToUpper(SubSeq(CellText(rowArr, 2), i, j)) = TOTAL

\* C22: a row that is entirely blank, whose first cell is "total" or "grand
\* total" in any case or starts with "branch:" or "period:", or whose second
\* cell has "total" in it in any case, is added to no list.
SummaryRowIsNeverTaken ==
  (seg.rows # <<>> /\ IsMetaOrSummaryRow(SheetRowTaken)) => ListsUnchanged

\* With the header captured and a known salesperson current, a row that is
\* not blank and has no "total" in its second cell was scanned as a summary
\* row.
SummaryRowMetInBlock ==
  /\ seg.rows # <<>>
  /\ IsMetaOrSummaryRow(SheetRowTaken)
  /\ ~IsBlankRow(SheetRowTaken)
  /\ CellText(SheetRowTaken, 2) # <<>>
  /\ ~Includes(ToUpper(CellText(SheetRowTaken, 2)), TOTAL)
  /\ seg.before.globalHeader # <<>>
  /\ seg.before.currentSalesperson \in DOMAIN salespersons

\* The merges of the one key of the calls since it was last cleared.
MergesOfCalls == ledger[<<NameA, EnginePeriod[1], EnginePeriod[2]>>]

\* The own, other and total values of a document; a key without a document
\* counts as zeros.
StoredValues(doc) ==
  IF doc = NoDoc THEN <<0, 0, 0>>
  ELSE <<doc.ownAchievement, doc.otherAchievement, doc.totalAchievement>>

\* The document of the key before its i-th merge.
DocBeforeMerge(merges, i) == IF i = 1 THEN NoDoc ELSE merges[i - 1].after

UnderWay(t) == t.pc \in {"read", "write"}

\* C24: in the run of one request the call for a block is not made before
\* the calls for all blocks ahead of it have returned, so at most one block of
\* the run is between its lookup and the end of its save.
BlocksOneAfterAnother ==
  \A r \in Requests :
    /\ \A i, j \in DOMAIN race[r].task :
         (i < j /\ race[r].task[j].pc # "new") => race[r].task[i].pc = "end"
    /\ \A i, j \in DOMAIN race[r].task :
         (UnderWay(race[r].task[i]) /\ UnderWay(race[r].task[j])) => i = j

\* A run has merged its first block and is between findOne and save of its
\* second, while the other request is between findOne and save too.
SecondBlockUnderWay ==
  \E r \in Requests :
    /\ Len(race[r].task) = 2
    /\ race[r].task[1].pc = "end"
    /\ race[r].task[1].found
    /\ race[r].task[1].after # NoDoc
    /\ race[r].task[2].pc = "write"
    /\ \E q \in Requests \ {r} : \E i \in DOMAIN race[q].task :
         race[q].task[i].pc = "write"

RECURSIVE SumOf(_)
SumOf(numbers) ==
  IF numbers = <<>> THEN 0 ELSE Head(numbers) + SumOf(Tail(numbers))

\* The line counts as own: the salesperson has a brand that is not empty and
\* the uppercased model starts with it.
IsOwnItem(item) ==
  /\ pass.brand # Null
  /\ pass.brand.str # <<>>
  /\ StartsWith(ToUpper(ModelText(item)), pass.brand.str)

\* The invoice's own-net and other-net: the amounts of its lines that are not
\* spares, by own and other.
OwnNetOf(inv) ==
  SumOf([j \in DOMAIN inv.items |->
           IF ~IsSparesModel(inv.items[j]) /\ IsOwnItem(inv.items[j])
             THEN inv.items[j].netAmount ELSE 0])

OtherNetOf(inv) ==
  SumOf([j \in DOMAIN inv.items |->
           IF ~IsSparesModel(inv.items[j]) /\ ~IsOwnItem(inv.items[j])
             THEN inv.items[j].netAmount ELSE 0])

\* The invoice is neither in the return set nor excluded for a credit
\* mismatch.
IsCounted(inv) ==
  /\ inv.invoiceNo \notin pass.returnSet
  /\ ~(HasCreditMismatch(inv) /\ CanonicalCustomer(inv) \notin FINANCE_CUSTOMERS)

\* C25: for a known salesperson totalOwn is the sum of the own-net and
\* totalOther the sum of the other-net of exactly the invoices of the block
\* that are neither returned nor excluded for a credit mismatch, and an
\* invoice whose own-net and other-net are both zero leaves both totals as
\* they were.
TotalsAreSumsOverCounted ==
  pass.found =>
    /\ pass.totalOwn =
         SumOf([i \in DOMAIN pass.trace |->
                  IF IsCounted(pass.trace[i].inv)
                    THEN OwnNetOf(pass.trace[i].inv) ELSE 0])
    /\ pass.totalOther =
         SumOf([i \in DOMAIN pass.trace |->
                  IF IsCounted(pass.trace[i].inv)
                    THEN OtherNetOf(pass.trace[i].inv) ELSE 0])
    /\ \A i \in DOMAIN pass.trace :
         (OwnNetOf(pass.trace[i].inv) = 0 /\ OtherNetOf(pass.trace[i].inv) = 0) =>
           TotalsAfter(i) = TotalsBefore(i)

\* A pass over two invoices: one is counted and has own-net, the other has
\* own-net or other-net and is returned or excluded.
CountedAndExcludedMet ==
  /\ pass.found
  /\ Len(pass.trace) = 2
  /\ pass.totalOwn # 0
  /\ \E i \in 1..2 :
       /\ ~IsCounted(pass.trace[i].inv)
       /\ OwnNetOf(pass.trace[i].inv) + OtherNetOf(pass.trace[i].inv) # 0

\* The number of line items over all invoices.
ItemCount(invoices) == SumOf([k \in DOMAIN invoices |-> Len(invoices[k].items)])

\* The rows that were not dropped: those that count under a number.
RowsKept(rows) == {i \in DOMAIN rows : NumberOfRow(rows, i) # <<>>}

\* The rows that count under the number.
RowsUnder(rows, invoiceNo) ==
  {i \in RowsKept(rows) : NumberOfRow(rows, i) = invoiceNo}

\* C26: a row that is not dropped adds one line item and a dropped row adds
\* none, so the line items of all invoices are as many as the rows that were
\* not dropped, and the p-th line item of an invoice is that of the p-th of
\* the rows that count under its number.
OneItemPerKeptRow ==
  /\ agg.rows # <<>> =>
       ItemCount(agg.st.invoices) =
         ItemCount(agg.before.invoices)
           + (IF Len(agg.rows) \in RowsKept(agg.rows) THEN 1 ELSE 0)
  /\ ItemCount(agg.st.invoices) = Cardinality(RowsKept(agg.rows))
  /\ \A k \in DOMAIN agg.st.invoices :
       \A p \in DOMAIN agg.st.invoices[k].items :
         \E i \in RowsUnder(agg.rows, agg.st.invoices[k].invoiceNo) :
           /\ agg.st.invoices[k].items[p] = lineItem(agg.rows[i])
           /\ Cardinality({h \in RowsUnder(agg.rows, agg.st.invoices[k].invoiceNo) :
                             h < i}) = p - 1

\* Three rows were taken, one of them dropped; the other two are the two
\* different line items of one invoice.
OneRowDroppedTwoKept ==
  /\ Len(agg.rows) = 3
  /\ Cardinality(RowsKept(agg.rows)) = 2
  /\ \E k \in DOMAIN agg.st.invoices :
       /\ Len(agg.st.invoices[k].items) = 2
       /\ agg.st.invoices[k].items[1] # agg.st.invoices[k].items[2]

\* The invoice number labels in the order they are tried.
InvoiceNoLabels ==
  <<Label.InvoiceNoDot, Label.InvoiceNo, Label.INVOICE_NO, Label.Invoice,
    Label.InvNo>>

\* The cell under a label is absent, null, empty or made of blanks.
BlankUnder(row, label) ==
  \/ label \notin DOMAIN row
  \/ row[label] \in {Undef, Null}
  \/ IsStr(row[label]) /\ Trim(row[label].str) = <<>>

AllInvoiceCellsBlank(row) ==
  \A a \in DOMAIN InvoiceNoLabels : BlankUnder(row, InvoiceNoLabels[a])

\* The cell under the first of the labels whose cell is not blank.
FirstInvoiceCell(row) ==
  row[InvoiceNoLabels[CHOOSE a \in DOMAIN InvoiceNoLabels :
        /\ ~BlankUnder(row, InvoiceNoLabels[a])
        /\ \A b \in 1..(a - 1) : BlankUnder(row, InvoiceNoLabels[b])]]

\* C27: a row with a non-blank cell under one of the invoice number labels
\* takes its number from the first such cell: it becomes the last line item
\* of the invoice with that canonical number, which becomes the last number
\* seen; and a row is handled as one without a number (the last number seen
\* stays) only when the cells under all the labels are blank.
NumberFromFirstNonBlankAlias ==
  agg.rows # <<>> =>
    IF AllInvoiceCellsBlank(RowTaken)
      THEN agg.st.lastInvNo = agg.before.lastInvNo
      ELSE With(StripTrailingStars(ToUpper(Trim(JSString(FirstInvoiceCell(RowTaken))))),
                LAMBDA number :
             number # <<>> =>
               /\ agg.st.lastInvNo = number
               /\ ItemsOf(agg.st.invoices, number) =
                    Append(ItemsOf(agg.before.invoices, number), lineItem(RowTaken)))

\* C28: every document holds a total that is the sum of its own and its
\* other value, after any merges and clears of periods.
TotalIsOwnPlusOther ==
  \A k \in Keys :
    achievements[k] # NoDoc =>
      achievements[k].totalAchievement =
        achievements[k].ownAchievement + achievements[k].otherAchievement

\* A key holds a document made by two merges that both changed it, with an
\* own and an other value, and a third call, a clear or a merge, was made.
MergedTwiceOfThreeCalls ==
  /\ ops = MaxMerges
  /\ \E k \in Keys :
       /\ Len(ledger[k]) = 2
       /\ achievements[k].ownAchievement # 0
       /\ achievements[k].otherAchievement # 0
       /\ ledger[k][1].after.ownAchievement # achievements[k].ownAchievement

\* The own, other and total a call of upsertAchievement is to add.
DeltasOf(t) == <<t.own, t.other, t.own + t.other>>

PlusValues(a, b) == <<a[1] + b[1], a[2] + b[2], a[3] + b[3]>>

\* C29: when a call of upsertAchievement has returned for a key that a call
\* of the other request saved between this call's findOne and save, with no
\* clear of the period in between, the key's stored values after this call are
\* the values its findOne saw plus the deltas of both calls.
NoUpdateLost ==
  \A r \in Requests : \A q \in Requests \ {r} :
    \A i \in DOMAIN race[r].task : \A j \in DOMAIN race[q].task :
      (/\ race[r].task[i].pc = "end" /\ race[r].task[i].found
       /\ race[q].task[j].pc = "end" /\ race[q].task[j].found
       /\ TaskKey(race[r], i) = TaskKey(race[q], j)
       /\ race[r].task[i].raced
       /\ ~race[r].task[i].swept /\ ~race[q].task[j].swept) =>
        StoredValues(race[r].task[i].after) =
          PlusValues(StoredValues(race[r].task[i].seen),
                     PlusValues(DeltasOf(race[q].task[j]),
                                DeltasOf(race[r].task[i])))

\* The calls of upsertAchievement the request made for the salesperson.
CallsFor(request, name) ==
  {i \in DOMAIN request.task : request.task[i].found /\ request.task[i].id = name}

\* The period holds what the upload of the request leaves when it runs with no
\* other request in flight: a document with the deltas of its call for every
\* salesperson it made a call for, and no other document.
HoldsUploadAlone(request) ==
  \A name \in Names :
    With(achievements[<<name, request.year, request.month>>], LAMBDA doc :
      /\ (doc # NoDoc) = (CallsFor(request, name) # {})
      /\ \A i \in CallsFor(request, name) :
           StoredValues(doc) = DeltasOf(request.task[i]))

\* C30: when two requests for the same period that were in flight together
\* have both been answered ok, the documents of the period are those one of
\* the two uploads leaves when it runs alone.
OverlappedUploadsAsIfInTurn ==
  (/\ \A r \in Requests : race[r].pc = "idle" /\ race[r].status = "ok"
   /\ \E r \in Requests : race[r].overlapped
   /\ \A r, q \in Requests :
        race[r].year = race[q].year /\ race[r].month = race[q].month) =>
    \E r \in Requests : HoldsUploadAlone(race[r])

\* The invoice adds nothing to the totals of the upload: it is in the return
\* set, or excluded for a credit mismatch.
IsExcluded(inv) ==
  \/ inv.invoiceNo \in upload.returnSet
  \/ HasCreditMismatch(inv) /\ CanonicalCustomer(inv) \notin FINANCE_CUSTOMERS

\* The invoices of the data rows the sheet holds for the name.
InvoicesOf(sheet, name) == aggregateInvoices(DataRowsOf(sheet, name))

\* C31: when an upload has answered ok, the period holds a document for a
\* salesperson exactly when the salesperson is known and the sales sheet holds
\* a data row for the name; the document is there with three zeros when every
\* invoice of the salesperson is excluded, and a document the period held for
\* anyone else before the upload is gone.
RecordIffKnownWithRows ==
  (upload.pc = "idle" /\ upload.status = "ok") =>
    \A n \in Names :
      With(achievements[<<n, upload.year, upload.month>>], LAMBDA doc :
      With(InvoicesOf(salesSheet, n), LAMBDA invoices :
        /\ (doc # NoDoc) =
             (n \in DOMAIN salespersons /\ DataRowsOf(salesSheet, n) # <<>>)
        /\ (/\ n \in DOMAIN salespersons
            /\ DataRowsOf(salesSheet, n) # <<>>
            /\ \A i \in DOMAIN invoices : IsExcluded(invoices[i])) =>
             doc = [ownAchievement |-> 0, otherAchievement |-> 0,
                    totalAchievement |-> 0]))

\* An upload has answered ok: a known salesperson whose invoices are all
\* excluded has a document of zeros, and a document the period held before the
\* upload for a known salesperson without a data row in the sheet is gone.
ZeroRecordAndRecordGone ==
  /\ upload.pc = "idle" /\ upload.status = "ok"
  /\ \E n \in KnownNames :
       /\ InvoicesOf(salesSheet, n) # <<>>
       /\ \A i \in DOMAIN InvoicesOf(salesSheet, n) :
            IsExcluded(InvoicesOf(salesSheet, n)[i])
       /\ StoredValues(achievements[<<n, upload.year, upload.month>>]) = <<0, 0, 0>>
       /\ achievements[<<n, upload.year, upload.month>>] # NoDoc
  /\ \E n \in KnownNames :
       /\ DataRowsOf(salesSheet, n) = <<>>
       /\ upload.before[<<n, upload.year, upload.month>>] # NoDoc
       /\ achievements[<<n, upload.year, upload.month>>] = NoDoc

\* The keys of the periods other than the one of the request the handler is
\* at after the step.
OtherPeriodKeys == {k \in Keys : <<k[2], k[3]>> # <<upload'.year, upload'.month>>}

\* C32: no step of an upload request, the clearing of its period and the
\* reconciliation of its blocks included, changes a document of
\* MonthlyAchievement of another period, the Salesperson collection or the
\* MonthlyTarget collection.
UploadTouchesOwnPeriodOnly ==
  [][/\ \A k \in OtherPeriodKeys : achievements'[k] = achievements[k]
     /\ salespersons' = salespersons
     /\ targets' = targets]_vars

\* An upload has answered ok that changed a document of its period, while
\* another period holds a document, as it did before the upload, and there
\* are salespersons and targets.
OtherPeriodKeptAcrossUpload ==
  /\ upload.pc = "idle" /\ upload.status = "ok"
  /\ \E k \in Keys :
       /\ <<k[2], k[3]>> = <<upload.year, upload.month>>
       /\ upload.before[k] # NoDoc
       /\ achievements[k] # upload.before[k]
  /\ \E k \in Keys :
       /\ <<k[2], k[3]>> # <<upload.year, upload.month>>
       /\ achievements[k] # NoDoc
       /\ achievements[k] = upload.before[k]
  /\ DOMAIN salespersons # {}
  /\ DOMAIN targets # {}
====
